---------------------------- MODULE Spec2Model ----------------------------
(***************************************************************************)
(* Memory consolidation and retrieval engine of mem_ai                     *)
(* (src/memory_store.py).  Text is modelled as a sequence of one-character *)
(* strings, so that strip, lower, prefix matching, the preference regex,   *)
(* item normalisation and the near-match scan are computed character by    *)
(* character as the code computes them.  The alphabet is ASCII without     *)
(* line breaks.  A created_at value is the wall-clock reading it was       *)
(* formatted from; a source message is the number of the turn it was       *)
(* typed in.                                                               *)
(***************************************************************************)
EXTENDS Integers, Sequences, FiniteSets, TLC

VARIABLES
    memories,   \* MemoryStore.memories: sequence of Memory records
    disk,       \* content of the backing file (memories.json)
    clock,      \* the last wall-clock reading of datetime.now
    calls,      \* number of calls made on the store so far
    last,       \* the last call made on the store: arguments, pre-state, result
    ui          \* the front end driving the store: lock, request threads, history

vars == <<memories, disk, clock, calls, last, ui>>

-----------------------------------------------------------------------------
(* Characters and Python's str primitives                                  *)

UpperAlpha == <<"A","B","C","D","E","F","G","H","I","J","K","L","M",
                "N","O","P","Q","R","S","T","U","V","W","X","Y","Z">>

LowerAlpha == <<"a","b","c","d","e","f","g","h","i","j","k","l","m",
                "n","o","p","q","r","s","t","u","v","w","x","y","z">>

DigitChars == {"0","1","2","3","4","5","6","7","8","9"}

IsUpper(c) == \E i \in DOMAIN UpperAlpha : UpperAlpha[i] = c

IsLowerAlpha(c) == \E i \in DOMAIN LowerAlpha : LowerAlpha[i] = c

\* str.lower on one character
LowerChar(c) ==
    IF IsUpper(c)
    THEN LowerAlpha[CHOOSE i \in DOMAIN UpperAlpha : UpperAlpha[i] = c]
    ELSE c

\* str.lower
Lower(s) == [i \in DOMAIN s |-> LowerChar(s[i])]

\* whitespace of str.strip, str.split and the regex class \s
IsSpace(c) == c \in {" ", "\t"}

MinOf(S) == CHOOSE i \in S : \A j \in S : i <= j

MaxOf(S) == CHOOSE i \in S : \A j \in S : j <= i

Abs(n) == IF n < 0 THEN -n ELSE n

Min(m, n) == IF m <= n THEN m ELSE n

\* s between the first and the last position of keep
SpanOf(s, keep) ==
    IF keep = {} THEN <<>> ELSE SubSeq(s, MinOf(keep), MaxOf(keep))

\* str.strip
Strip(s) == SpanOf(s, {i \in DOMAIN s : ~IsSpace(s[i])})

\* str.startswith
StartsWith(s, p) == Len(s) >= Len(p) /\ SubSeq(s, 1, Len(p)) = p

\* the operator `in` on two strings
Contains(s, sub) ==
    \E k \in 0..(Len(s) - Len(sub)) : SubSeq(s, k + 1, k + Len(sub)) = sub

\* the elements of s at the positions of keep, in order
RECURSIVE SelectIdx(_, _, _)
SelectIdx(s, keep, i) ==
    IF i > Len(s) THEN <<>>
    ELSE (IF i \in keep THEN <<s[i]>> ELSE <<>>) \o SelectIdx(s, keep, i + 1)

\* str.replace(sub, ""): every non-overlapping occurrence, left to right
RECURSIVE RemoveAll(_, _)
RemoveAll(s, sub) ==
    IF Len(s) < Len(sub) \/ Len(sub) = 0 THEN s
    ELSE IF StartsWith(s, sub)
         THEN RemoveAll(SubSeq(s, Len(sub) + 1, Len(s)), sub)
         ELSE <<s[1]>> \o RemoveAll(Tail(s), sub)

\* str.replace(sub, "", 1): the first occurrence only
RECURSIVE RemoveFirst(_, _)
RemoveFirst(s, sub) ==
    IF Len(s) < Len(sub) \/ Len(sub) = 0 THEN s
    ELSE IF StartsWith(s, sub)
         THEN SubSeq(s, Len(sub) + 1, Len(s))
         ELSE <<s[1]>> \o RemoveFirst(Tail(s), sub)

\* len(str.split()): the number of maximal runs of non-whitespace
WordCount(s) ==
    Cardinality({i \in DOMAIN s :
                    ~IsSpace(s[i]) /\ (i = 1 \/ IsSpace(s[i - 1]))})

-----------------------------------------------------------------------------
(* Literals of memory_store.py                                             *)

S_user_likes == <<"u","s","e","r"," ","l","i","k","e","s">>

S_user_dislikes == <<"u","s","e","r"," ","d","i","s","l","i","k","e","s">>

S_User == <<"U","s","e","r"," ">>

S_name_is == <<"u","s","e","r","'","s"," ","n","a","m","e"," ","i","s">>

S_birthday == <<"u","s","e","r","'","s"," ","b","i","r","t","h","d","a","y",
                " ","i","s"," ","o","n"," ">>

S_lives_in == <<"u","s","e","r"," ","l","i","v","e","s"," ","i","n"," ">>

S_works_as == <<"u","s","e","r"," ","w","o","r","k","s"," ","a","s"," ">>

S_studies == <<"u","s","e","r"," ","s","t","u","d","i","e","s"," ">>

S_best_friend == <<"u","s","e","r","'","s"," ","b","e","s","t"," ",
                   "f","r","i","e","n","d"," ","i","s"," ">>

S_dog_named == <<"u","s","e","r"," ","h","a","s"," ","a"," ","d","o","g",
                 " ","n","a","m","e","d"," ">>

S_likes_to == S_user_likes \o <<" ","t","o"," ">>

S_needs_confirmation == <<" ","(","n","e","e","d","s"," ","c","o","n","f",
                          "i","r","m","a","t","i","o","n",")">>

INVALID_NAME_TOKENS ==
    { <<"l","e","a","r","n","i","n","g">>, <<"a","l","l","e","r","g","i","c">>,
      <<"t","r","a","i","n","i","n","g">>, <<"f","o","o","d","i","e">>,
      <<"o","k">>, <<"o","k","a","y">>,
      <<"p","r","e","p","a","r","i","n","g">> }

bad_exact ==
    { S_user_likes \o <<" ","t","o"," ","w","a","t","c","h">>,
      S_user_likes \o <<" ","t","o"," ","e","a","t">>,
      S_user_likes \o <<" ","t","o"," ","p","l","a","y">>,
      S_user_likes \o <<" ","w","a","t","c","h">> }

-----------------------------------------------------------------------------
(* The fact classifier                                                     *)

\* length of the text matched by "User (likes|dislikes)", case-insensitive;
\* 0 when the text does not start with it
PrefVerbLen(s) ==
    IF StartsWith(Lower(s), S_user_likes) THEN Len(S_user_likes)
    ELSE IF StartsWith(Lower(s), S_user_dislikes) THEN Len(S_user_dislikes)
    ELSE 0

\* length of the whitespace run of s that starts at position i
RECURSIVE SpaceRun(_, _)
SpaceRun(s, i) ==
    IF i > Len(s) \/ ~IsSpace(s[i]) THEN 0 ELSE 1 + SpaceRun(s, i + 1)

\* the match of PREF_PATTERN on s, the verb ending at position v and w
\* whitespace characters following it: \s+ is greedy and gives back one
\* character when nothing else is left for (.+)
PrefGroups(s, v, w) ==
    IF v > 0 /\ w >= 1 /\ (v + w < Len(s) \/ w >= 2)
    THEN [ok |-> TRUE,
          polarity |-> Lower(SubSeq(s, 6, v)),
          item |-> SubSeq(s, IF v + w < Len(s) THEN v + w + 1 ELSE Len(s),
                          Len(s))]
    ELSE [ok |-> FALSE, polarity |-> <<>>, item |-> <<>>]

\* PREF_PATTERN.match(s): ^User (likes|dislikes)\s+(.+)$ with IGNORECASE
PREF_PATTERN(s) == PrefGroups(s, PrefVerbLen(s), SpaceRun(s, PrefVerbLen(s) + 1))

\* a whitespace character becomes a space
SpacesOf(t) == [i \in DOMAIN t |-> IF IsSpace(t[i]) THEN " " ELSE t[i]]

\* re.sub(r"\s+", " ", s): every whitespace run becomes one space
CollapseSpaces(s) ==
    SpacesOf(SelectIdx(s, {i \in DOMAIN s :
                              ~IsSpace(s[i]) \/ i = 1 \/ ~IsSpace(s[i - 1])}, 1))

\* re.sub(r"[^a-z0-9\s-]", "", cleaned)
ItemChars(cleaned) ==
    SelectIdx(cleaned, {i \in DOMAIN cleaned :
                           \/ IsLowerAlpha(cleaned[i])
                           \/ cleaned[i] \in DigitChars
                           \/ IsSpace(cleaned[i])
                           \/ cleaned[i] = "-"}, 1)

\* MemoryStore._normalize_pref_item
normalize_pref_item(text) ==
    Strip(CollapseSpaces(ItemChars(Lower(Strip(text)))))

\* the while loop of _is_near_pref_match and the two statements after it
RECURSIVE NearScan(_, _, _, _, _)
NearScan(a, b, i, j, edits) ==
    IF i < Len(a) /\ j < Len(b)
    THEN IF a[i + 1] = b[j + 1]
         THEN NearScan(a, b, i + 1, j + 1, edits)
         ELSE IF edits + 1 > 1 THEN FALSE
              ELSE IF Len(a) > Len(b) THEN NearScan(a, b, i + 1, j, edits + 1)
              ELSE IF Len(b) > Len(a) THEN NearScan(a, b, i, j + 1, edits + 1)
              ELSE NearScan(a, b, i + 1, j + 1, edits + 1)
    ELSE (IF i < Len(a) \/ j < Len(b) THEN edits + 1 ELSE edits) <= 1

\* a faulty near-match: two different items of equal length never match
near_without_substitution(a, b) ==
    IF a = b THEN TRUE
    ELSE IF Len(a) = Len(b) \/ Abs(Len(a) - Len(b)) > 1 THEN FALSE
    ELSE IF (Contains(b, a) \/ Contains(a, b)) /\ Min(Len(a), Len(b)) >= 4
         THEN TRUE
    ELSE NearScan(a, b, 0, 0, 0)

\* a faulty near-match: characters are compared position by position, a
\* missing or an extra character is never skipped
near_by_position(a, b) ==
    IF a = b THEN TRUE
    ELSE IF Abs(Len(a) - Len(b)) > 1 THEN FALSE
    ELSE IF (Contains(b, a) \/ Contains(a, b)) /\ Min(Len(a), Len(b)) >= 4
         THEN TRUE
    ELSE Cardinality({i \in 1..Min(Len(a), Len(b)) : a[i] # b[i]})
           + (IF Len(a) # Len(b) THEN 1 ELSE 0) <= 1

\* MemoryStore._is_near_pref_match
is_near_pref_match(a, b) ==
    IF a = b THEN TRUE
    ELSE IF Abs(Len(a) - Len(b)) > 1 THEN FALSE
    ELSE IF (Contains(b, a) \/ Contains(a, b)) /\ Min(Len(a), Len(b)) >= 4
         THEN TRUE
    ELSE NearScan(a, b, 0, 0, 0)

\* the prefix tests of _single_value_group on the stripped, lowered fact
GroupOfLow(low) ==
    IF StartsWith(low, S_name_is \o <<" ">>) THEN "name"
    ELSE IF StartsWith(low, S_birthday) THEN "birthday"
    ELSE IF StartsWith(low, S_lives_in) THEN "location"
    ELSE IF StartsWith(low, S_works_as) \/ StartsWith(low, S_studies)
         THEN "occupation"
    ELSE IF StartsWith(low, S_best_friend) THEN "best_friend"
    ELSE IF StartsWith(low, S_dog_named) THEN "dog_name"
    ELSE ""

\* MemoryStore._single_value_group
single_value_group(fact) == GroupOfLow(Lower(Strip(fact)))

\* the tests of _is_invalid_memory on the stripped, lowered fact
InvalidLow(f) ==
    \/ f \in bad_exact
    \/ StartsWith(f, S_likes_to) /\ WordCount(f) <= 4

\* MemoryStore._is_invalid_memory
is_invalid_memory(fact) == InvalidLow(Lower(Strip(fact)))

\* the value compared with INVALID_NAME_TOKENS by
\* _compact_single_value_memories
name_value(fact) == Strip(RemoveFirst(Lower(Strip(fact)), S_name_is))

-----------------------------------------------------------------------------
(* Memory records and the consolidation engine                             *)

\* dataclass Memory
Memory(fact, created_at, source_user_message) ==
    [fact |-> fact, created_at |-> created_at,
     source_user_message |-> source_user_message]

\* group(2).strip() of a stored preference memory
pref_item_of(fact) == Strip(PREF_PATTERN(Strip(fact)).item)

\* existing_key of a stored preference memory
pref_key_of(fact) == normalize_pref_item(pref_item_of(fact))

\* the test the scan of _upsert_preference_fact makes on one memory
is_pref_match(fact, item_key) ==
    /\ PREF_PATTERN(Strip(fact)).ok
    /\ pref_key_of(fact) # <<>>
    /\ is_near_pref_match(item_key, pref_key_of(fact))

\* the indexes collected by the scan of _upsert_preference_fact
matched_indexes(mems, item_key) ==
    {idx \in DOMAIN mems : is_pref_match(mems[idx].fact, item_key)}

\* canonical_item as the scan leaves it: the first longest matched item
\* that is longer than the label carried so far
RECURSIVE canonical_scan(_, _, _, _)
canonical_scan(mems, matched, idx, canonical_item) ==
    IF idx > Len(mems) THEN canonical_item
    ELSE IF idx \in matched
              /\ Len(pref_item_of(mems[idx].fact)) > Len(canonical_item)
         THEN canonical_scan(mems, matched, idx + 1,
                             pref_item_of(mems[idx].fact))
         ELSE canonical_scan(mems, matched, idx + 1, canonical_item)

\* a faulty choice of the label: the new item whatever its length
canonical_label_latest(item, found) == item

\* the longer of the item and the label found, the item on a tie
canonical_label(item, found) == IF Len(item) >= Len(found) THEN item ELSE found

\* f"User {polarity} {item}"
pref_fact(polarity, item) == S_User \o polarity \o <<" ">> \o item

\* a faulty end of _upsert_preference_fact: the first matched index is
\* written and the other matched memories stay
upsert_write_keeping(mems, matched, new_mem) ==
    IF matched = {}
    THEN [memories |-> Append(mems, new_mem), ret |-> 1, timed |-> TRUE]
    ELSE [memories |-> [mems EXCEPT ![MinOf(matched)] = new_mem],
          ret |-> 0, timed |-> TRUE]

\* a faulty end of _upsert_preference_fact: every matched memory is
\* deleted and the merged memory is appended
upsert_write_moved(mems, matched, new_mem) ==
    [memories |-> Append(SelectIdx(mems, DOMAIN mems \ matched, 1), new_mem),
     ret |-> IF matched = {} THEN 1 ELSE 0, timed |-> TRUE]

\* the end of _upsert_preference_fact: append when nothing matched,
\* otherwise write the first matched index and delete the other ones
upsert_write(mems, matched, new_mem) ==
    IF matched = {}
    THEN [memories |-> Append(mems, new_mem), ret |-> 1, timed |-> TRUE]
    ELSE [memories |->
             SelectIdx([mems EXCEPT ![MinOf(matched)] = new_mem],
                       (DOMAIN mems \ matched) \cup {MinOf(matched)}, 1),
          ret |-> 0, timed |-> TRUE]

\* _upsert_preference_fact once the item and the matched indexes are known
upsert_item(mems, polarity, item, matched, source_user_message, now) ==
    upsert_write(mems, matched,
        Memory(pref_fact(polarity,
                   canonical_label(item, canonical_scan(mems, matched, 1, item))),
               now, source_user_message))

\* _upsert_preference_fact on the regex match of the stripped fact
upsert_match(mems, match, source_user_message, now) ==
    IF \/ ~match.ok
       \/ Strip(match.item) = <<>>
       \/ normalize_pref_item(Strip(match.item)) = <<>>
    THEN [memories |-> mems, ret |-> 0, timed |-> FALSE]
    ELSE upsert_item(mems, match.polarity, Strip(match.item),
             matched_indexes(mems, normalize_pref_item(Strip(match.item))),
             source_user_message, now)

\* MemoryStore._upsert_preference_fact; now is the value datetime.now
\* gives, timed tells whether it was read
upsert_preference_fact(mems, fact, source_user_message, now) ==
    upsert_match(mems, PREF_PATTERN(Strip(fact)), source_user_message, now)

\* the set built at line 280 and again at line 302
existing_of(mems) == {Lower(Strip(mems[i].fact)) : i \in DOMAIN mems}

\* a faulty preference branch: a merge counts as an addition
add_pref_counting(st, up, now) ==
    [st EXCEPT !.memories = up.memories,
               !.added = st.added + (IF up.timed THEN 1 ELSE 0),
               !.clock = IF up.timed THEN now ELSE st.clock]

\* the preference branch of add_facts; st holds the loop's variables
add_pref(st, up, now) ==
    [st EXCEPT !.memories = up.memories,
               !.added = st.added + up.ret,
               !.clock = IF up.timed THEN now ELSE st.clock]

\* a faulty line 293: the memories of the group are kept
without_group_kept(mems, group) == mems

\* line 293: the memories that are not of the group
without_group(mems, group) ==
    SelectIdx(mems, {i \in DOMAIN mems :
                        single_value_group(mems[i].fact) # group}, 1)

\* a faulty slot branch: the memories of the other slots are dropped too
add_slot_alone(st, mems, now) ==
    [memories |-> SelectIdx(mems, {i \in DOMAIN mems :
                                      \/ single_value_group(mems[i].fact) = ""
                                      \/ i = Len(mems)}, 1),
     existing |-> existing_of(mems),
     added |-> st.added + 1, clock |-> now]

\* the slot branch of add_facts, mems being the memories it leaves
add_slot(st, mems, now) ==
    [memories |-> mems, existing |-> existing_of(mems),
     added |-> st.added + 1, clock |-> now]

\* a faulty last branch: the text is compared as written, not lowercased
add_plain_cased(st, cleaned, source_user_message, now) ==
    IF cleaned \in st.existing THEN st
    ELSE [memories |-> Append(st.memories,
                              Memory(cleaned, now, source_user_message)),
          existing |-> st.existing \cup {Lower(cleaned)},
          added |-> st.added + 1, clock |-> now]

\* a faulty last branch: the key of an added fact is not put in existing
add_plain_unrecorded(st, cleaned, source_user_message, now) ==
    IF Lower(cleaned) \in st.existing THEN st
    ELSE [memories |-> Append(st.memories,
                              Memory(cleaned, now, source_user_message)),
          existing |-> st.existing,
          added |-> st.added + 1, clock |-> now]

\* the last branch of add_facts: a fact that is no preference and no slot
add_plain(st, cleaned, source_user_message, now) ==
    IF Lower(cleaned) \in st.existing THEN st
    ELSE [memories |-> Append(st.memories,
                              Memory(cleaned, now, source_user_message)),
          existing |-> st.existing \cup {Lower(cleaned)},
          added |-> st.added + 1, clock |-> now]

\* one iteration of the loop of add_facts on the stripped candidate
add_cleaned(st, cleaned, source_user_message, now) ==
    IF cleaned = <<>> THEN st
    ELSE IF PREF_PATTERN(cleaned).ok
    THEN add_pref(st, upsert_preference_fact(st.memories, cleaned,
                                             source_user_message, now), now)
    ELSE IF single_value_group(cleaned) # ""
    THEN add_slot(st,
             Append(without_group(st.memories, single_value_group(cleaned)),
                    Memory(cleaned, now, source_user_message)),
             now)
    ELSE add_plain(st, cleaned, source_user_message, now)

\* one iteration of the loop of add_facts; tick is how far the wall clock
\* has moved when datetime.now is read
add_one(st, fact, source_user_message, tick) ==
    add_cleaned(st, Strip(fact), source_user_message, st.clock + tick)

\* the loop of add_facts over the candidates facts[i..]
RECURSIVE add_loop(_, _, _, _, _)
add_loop(st, facts, source_user_message, ticks, i) ==
    IF i > Len(facts) THEN st
    ELSE add_loop(add_one(st, facts[i], source_user_message, ticks[i]),
                  facts, source_user_message, ticks, i + 1)

\* MemoryStore.add_facts up to the save: the loop's final variables
add_facts(mems, facts, source_user_message, now0, ticks) ==
    add_loop([memories |-> mems, existing |-> existing_of(mems),
              added |-> 0, clock |-> now0],
             facts, source_user_message, ticks, 1)

-----------------------------------------------------------------------------
(* The backing file and the load-time repair                               *)

KeyNames == {"fact", "created_at", "source_user_message"}

\* one element of the parsed JSON value as Memory(**item) sees it: a mapping
\* with its key set, or anything else (shape "scalar"); fact_is_str tells
\* whether the value under "fact" is a JSON string
Item(fact, created_at, source_user_message) ==
    [shape |-> "record", keys |-> KeyNames, fact_is_str |-> TRUE,
     fact |-> fact, created_at |-> created_at,
     source_user_message |-> source_user_message]

\* asdict(memory) for every memory, as json.dumps writes it and json.loads
\* reads it back
Payload(mems) ==
    [kind |-> "list",
     items |-> [i \in DOMAIN mems |->
                  Item(mems[i].fact, mems[i].created_at,
                       mems[i].source_user_message)]]

AbsentFile == [kind |-> "absent", items |-> <<>>]

\* what Path.write_text leaves when the write fails after the file was
\* opened for writing: a truncated text
TruncatedFile == [kind |-> "text", items |-> <<>>]

\* a faulty sort: the list is left in the order it has
KeptInOrder(mems) == mems

\* list.sort(key=lambda m: m.created_at): stable, ascending
RECURSIVE InsertByCreatedAt(_, _)
InsertByCreatedAt(sorted, m) ==
    IF sorted = <<>> THEN <<m>>
    ELSE IF sorted[Len(sorted)].created_at <= m.created_at
         THEN Append(sorted, m)
         ELSE Append(InsertByCreatedAt(SubSeq(sorted, 1, Len(sorted) - 1), m),
                     sorted[Len(sorted)])

RECURSIVE SortByCreatedAt(_)
SortByCreatedAt(mems) ==
    IF mems = <<>> THEN <<>>
    ELSE InsertByCreatedAt(SortByCreatedAt(SubSeq(mems, 1, Len(mems) - 1)),
                           mems[Len(mems)])

\* the values of a dict kept as a sequence of entries, in insertion order
ValuesOf(entries) == [k \in DOMAIN entries |-> entries[k].mem]

\* the first key of hits, new_key when there is none
first_key(pref_latest, hits, new_key) ==
    IF hits = {} THEN new_key ELSE pref_latest[MinOf(hits)].key

\* MemoryStore._find_existing_pref_key over the dict's keys in insertion
\* order; the dict is a sequence of [key, mem] entries
find_existing_pref_key(pref_latest, new_key) ==
    first_key(pref_latest,
              {k \in DOMAIN pref_latest :
                  is_near_pref_match(pref_latest[k].key, new_key)},
              new_key)

\* lines 211-229: pref_latest[resolved] = Memory(...), at being the
\* positions of the dict that hold the key resolved
pref_put(pref_latest, at, resolved, polarity, item, mem) ==
    IF at # {}
    THEN [pref_latest EXCEPT ![MinOf(at)].mem =
             Memory(pref_fact(polarity,
                        canonical_label(item,
                            pref_item_of(pref_latest[MinOf(at)].mem.fact))),
                    mem.created_at, mem.source_user_message)]
    ELSE Append(pref_latest,
                [key |-> resolved,
                 mem |-> Memory(pref_fact(polarity, item),
                                mem.created_at, mem.source_user_message)])

\* lines 209-229 once the key is resolved
pref_resolved(pref_latest, resolved, polarity, item, mem) ==
    pref_put(pref_latest,
             {k \in DOMAIN pref_latest : pref_latest[k].key = resolved},
             resolved, polarity, item, mem)

\* one iteration of the loop of _compact_preference_memories; st holds
\* compacted and pref_latest, match is the regex match of the memory
compact_pref_step(st, mem, match) ==
    IF ~match.ok
    THEN [st EXCEPT !.compacted = Append(st.compacted, mem)]
    ELSE IF normalize_pref_item(Strip(match.item)) = <<>> THEN st
    ELSE [st EXCEPT !.pref_latest =
             pref_resolved(st.pref_latest,
                 find_existing_pref_key(st.pref_latest,
                     normalize_pref_item(Strip(match.item))),
                 match.polarity, Strip(match.item), mem)]

RECURSIVE compact_pref_loop(_, _, _)
compact_pref_loop(st, mems, i) ==
    IF i > Len(mems) THEN st
    ELSE compact_pref_loop(
             compact_pref_step(st, mems[i], PREF_PATTERN(Strip(mems[i].fact))),
             mems, i + 1)

\* lines 231-234
compact_pref_result(st) ==
    SortByCreatedAt(st.compacted \o ValuesOf(st.pref_latest))

\* MemoryStore._compact_preference_memories
compact_preference_memories(mems) ==
    IF mems = <<>> THEN mems
    ELSE compact_pref_result(
             compact_pref_loop([compacted |-> <<>>, pref_latest |-> <<>>],
                               mems, 1))

\* latest[group] = mem, at being the positions of the dict that hold group
latest_put(latest, at, group, mem) ==
    IF at # {} THEN [latest EXCEPT ![MinOf(at)].mem = mem]
    ELSE Append(latest, [group |-> group, mem |-> mem])

\* one iteration of the loop of _compact_single_value_memories; st holds
\* others and latest, the dict being a sequence of [group, mem] entries
compact_single_step(st, mem, group) ==
    IF group = "" THEN [st EXCEPT !.others = Append(st.others, mem)]
    ELSE IF group = "name" /\ name_value(mem.fact) \in INVALID_NAME_TOKENS
    THEN st
    ELSE [st EXCEPT !.latest =
             latest_put(st.latest,
                        {k \in DOMAIN st.latest : st.latest[k].group = group},
                        group, mem)]

RECURSIVE compact_single_loop(_, _, _)
compact_single_loop(st, mems, i) ==
    IF i > Len(mems) THEN st
    ELSE compact_single_loop(
             compact_single_step(st, mems[i], single_value_group(mems[i].fact)),
             mems, i + 1)

\* lines 268-270
compact_single_result(st) == SortByCreatedAt(st.others \o ValuesOf(st.latest))

\* MemoryStore._compact_single_value_memories
compact_single_value_memories(mems) ==
    IF mems = <<>> THEN mems
    ELSE compact_single_result(
             compact_single_loop([others |-> <<>>, latest |-> <<>>], mems, 1))

\* the records of a parseable store after lines 64-67: one Memory per item,
\* the legacy marker removed from its fact
loaded_of(d) ==
    [i \in DOMAIN d.items |->
        Memory(Strip(RemoveAll(d.items[i].fact, S_needs_confirmation)),
               d.items[i].created_at, d.items[i].source_user_message)]

\* line 68: the loaded records that are no degenerate fragment
valid_of(loaded) ==
    SelectIdx(loaded,
              {i \in DOMAIN loaded : ~is_invalid_memory(loaded[i].fact)}, 1)

\* lines 68-70: the memories _load keeps of the loaded records
repaired(loaded) ==
    compact_single_value_memories(compact_preference_memories(valid_of(loaded)))

\* Memory(**item) raises TypeError for an element of the file
is_malformed(d) ==
    \E i \in DOMAIN d.items :
        d.items[i].shape # "record" \/ d.items[i].keys # KeyNames

\* m.fact.replace raises AttributeError for a record of the file
has_nonstr_fact(d) == \E i \in DOMAIN d.items : ~d.items[i].fact_is_str

\* lines 68-72 on a parseable store of n records
load_repaired(mems, n) ==
    [memories |-> mems, raised |-> "none", save |-> Len(mems) # n]

\* MemoryStore._load on the file content d: the memories it leaves, the
\* exception that leaves the constructor ("none" when it returns), and
\* whether it calls _save
load(d) ==
    IF d.kind = "absent"
    THEN [memories |-> <<>>, raised |-> "none", save |-> FALSE]
    ELSE IF d.kind = "bytes"
    THEN [memories |-> <<>>, raised |-> "UnicodeDecodeError", save |-> FALSE]
    ELSE IF d.kind \in {"text", "scalar"} \/ is_malformed(d)
    THEN [memories |-> <<>>, raised |-> "none", save |-> FALSE]
    ELSE IF has_nonstr_fact(d)
    THEN [memories |-> <<>>, raised |-> "AttributeError", save |-> FALSE]
    ELSE load_repaired(repaired(loaded_of(d)), Len(d.items))

-----------------------------------------------------------------------------
(* The retrieval ranker                                                    *)

\* a character of the class [a-zA-Z0-9']
IsTokenChar(c) ==
    IsLowerAlpha(c) \/ IsUpper(c) \/ c \in DigitChars \/ c = "'"

\* the position after the run of token characters that starts at i
token_end(text, i) ==
    MinOf({j \in i..(Len(text) + 1) :
              j = Len(text) + 1 \/ ~IsTokenChar(text[j])})

\* _tokenize: the maximal runs of token characters, lowercased, in order
RECURSIVE tokenize_from(_, _)
tokenize_from(text, i) ==
    IF i > Len(text) THEN <<>>
    ELSE IF ~IsTokenChar(text[i]) THEN tokenize_from(text, i + 1)
    ELSE <<Lower(SubSeq(text, i, token_end(text, i) - 1))>>
         \o tokenize_from(text, token_end(text, i))

tokenize(text) == tokenize_from(text, 1)

\* the count _term_freq keeps of a token; every frequency is its count
\* over Len(tokens), a factor that cancels in the cosine
term_count(tokens, token) ==
    Cardinality({i \in DOMAIN tokens : tokens[i] = token})

RECURSIVE SumSeq(_)
SumSeq(s) == IF s = <<>> THEN 0 ELSE Head(s) + SumSeq(Tail(s))

\* the dot product of the count vectors of two token lists: the sum over
\* the distinct tokens k of ta of count_a(k) * count_b(k)
Dot(ta, tb) == SumSeq([i \in DOMAIN ta |-> term_count(tb, ta[i])])

\* _cosine_similarity of the term frequencies of two token lists, kept as
\* the exact square of the cosine: num / den with den > 0.  The cosine is
\* never negative, so its square orders scores as the cosine does.
cosine_similarity(ta, tb) ==
    IF ta = <<>> \/ tb = <<>> THEN [num |-> 0, den |-> 1]
    ELSE [num |-> Dot(ta, tb) * Dot(ta, tb), den |-> Dot(ta, ta) * Dot(tb, tb)]

\* score >= min_score, min_score being the fraction ms.p / ms.q with q > 0
ScoreAtLeast(score, ms) ==
    ms.p <= 0 \/ score.num * ms.q * ms.q >= ms.p * ms.p * score.den

ScoreLess(s1, s2) == s1.num * s2.den < s2.num * s1.den

\* a faulty sort key: the score alone, created_at not compared
KeyLessByScore(e1, e2) == ScoreLess(e1.score, e2.score)

\* the sort key (score, created_at) of search: e1 orders before e2
KeyLess(e1, e2) ==
    \/ ScoreLess(e1.score, e2.score)
    \/ /\ ~ScoreLess(e2.score, e1.score)
       /\ e1.memory.created_at < e2.memory.created_at

\* scored.sort(key=..., reverse=True): descending, equal keys keep their
\* order
RECURSIVE InsertByKeyDesc(_, _)
InsertByKeyDesc(sorted, e) ==
    IF sorted = <<>> THEN <<e>>
    ELSE IF ~KeyLess(sorted[Len(sorted)], e)
         THEN Append(sorted, e)
         ELSE Append(InsertByKeyDesc(SubSeq(sorted, 1, Len(sorted) - 1), e),
                     sorted[Len(sorted)])

RECURSIVE SortByKeyDesc(_)
SortByKeyDesc(scored) ==
    IF scored = <<>> THEN <<>>
    ELSE InsertByKeyDesc(SortByKeyDesc(SubSeq(scored, 1, Len(scored) - 1)),
                         scored[Len(scored)])

\* a faulty slice: s[:k + 1]
SliceThrough(s, k) ==
    IF k + 1 <= 0 THEN <<>> ELSE SubSeq(s, 1, Min(k + 1, Len(s)))

\* the slice s[:k] of a Python list
SliceTo(s, k) ==
    IF k >= 0 THEN SubSeq(s, 1, Min(k, Len(s)))
    ELSE IF Len(s) + k <= 0 THEN <<>>
    ELSE SubSeq(s, 1, Len(s) + k)

\* the score of every memory against the query tokens
score_all(mems, query_tokens) ==
    [i \in DOMAIN mems |->
        [score |-> cosine_similarity(query_tokens, tokenize(mems[i].fact)),
         memory |-> mems[i]]]

\* the list scored of search before it is sorted
scored_of(all, min_score) ==
    SelectIdx(all, {i \in DOMAIN all : ScoreAtLeast(all[i].score, min_score)}, 1)

\* the memories of a list of scored entries
MemoriesOf(entries) == [i \in DOMAIN entries |-> entries[i].memory]

\* MemoryStore.search
search(mems, query, top_k, min_score) ==
    MemoriesOf(SliceTo(SortByKeyDesc(
        scored_of(score_all(mems, tokenize(query)), min_score)), top_k))

-----------------------------------------------------------------------------
(* Bounds and inputs                                                       *)

\* calls made on the store in one behaviour
MaxCalls == 2

\* candidate facts in one add_facts call
MaxBatch == 2

\* candidate facts of the extractor: canonical phrasings, a case and
\* whitespace variant, an item that normalises to nothing, blank text and
\* free text
F_likes_tea == <<"U","s","e","r"," ","l","i","k","e","s"," ","t","e","a">>

F_dislikes_tea ==
    <<"U","s","e","r"," ","d","i","s","l","i","k","e","s"," ","t","e","a">>

F_likes_teas ==
    <<" ","u","s","e","r"," ","L","I","K","E","S"," "," ","t","e","a","s"," ">>

F_likes_bang == <<"U","s","e","r"," ","l","i","k","e","s"," ","!">>

F_blank == <<" "," ">>

F_has_cat == <<"H","a","s"," ","c","a","t">>

F_has_cat_variant == <<" ","h","a","s"," ","C","A","T">>

F_name_al == <<"U","s","e","r","'","s"," ","n","a","m","e"," ","i","s"," ","A","l">>

F_name_bo == <<"U","s","e","r","'","s"," ","n","a","m","e"," ","i","s"," ","B","o">>

\* a name fact whose value is the denylisted token "ok"
F_name_ok == <<"U","s","e","r","'","s"," ","n","a","m","e"," ","i","s"," ","O","k">>

F_works_vet == <<"U","s","e","r"," ","w","o","r","k","s"," ","a","s"," ","v","e","t">>

F_studies_law == <<"u","s","e","r"," ","S","t","u","d","i","e","s"," ","l","a","w">>

F_dislikes_seas ==
    <<"U","s","e","r"," ","d","i","s","l","i","k","e","s"," ","s","e","a","s">>

\* the items of the label example: a truncated item, and a longer one that
\* differs by case, spacing and punctuation
F_likes_pizz == <<"U","s","e","r"," ","l","i","k","e","s"," ","p","i","z","z">>

F_dislikes_pizzas ==
    <<"u","s","e","r"," ","D","I","S","L","I","K","E","S"," "," ",
      "P","i","z","z","a","s","!">>

\* the memories of the ranking example
F_likes_pizza == <<"U","s","e","r"," ","l","i","k","e","s"," ","p","i","z","z","a">>

F_likes_hiking ==
    <<"U","s","e","r"," ","l","i","k","e","s"," ","h","i","k","i","n","g">>

FactPool ==
    { F_likes_tea, F_dislikes_tea, F_likes_bang, F_blank, F_has_cat,
      F_has_cat_variant, F_name_al }

\* candidates of the preference scenarios: three items of which the third
\* is a near-duplicate of both other ones, in both polarities
PrefFactPool == { F_likes_tea, F_dislikes_tea, F_likes_teas, F_dislikes_seas }

\* candidates of the slot scenarios
SlotFactPool ==
    { F_name_al, F_name_bo, F_name_ok, F_works_vet, F_studies_law, F_has_cat }

\* candidates of the load scenarios
LoadFactPool == { F_dislikes_tea, F_likes_teas, F_has_cat }

\* all sequences over pool of length at most n
BoundedSeq(pool, n) == UNION {[1..k -> pool] : k \in 0..n}

Q_tea_cat == <<"t","e","a"," ","o","r"," ","c","a","t","?">>

Q_likes == <<"l","i","k","e","s">>

\* the query of the ranking example
Q_pizza ==
    <<"w","h","a","t"," ","p","i","z","z","a"," ","t","o","p","p","i","n","g","s">>

QueryPool == {Q_tea_cat, Q_likes, Q_pizza, <<>>}

TopKPool == {-1, 0, 1, 2}

\* top_k of the front ends' searches
WebTopK == 5

\* min_score values: 0.0 (the callers' value), 0.08 (the default), 1.0
MinScorePool == {[p |-> 0, q |-> 1], [p |-> 8, q |-> 100], [p |-> 1, q |-> 1]}

-----------------------------------------------------------------------------
(* The store as a state machine                                            *)

\* MemoryStore._save: what the file holds afterwards.  io is the fate of
\* Path.write_text: it succeeds, fails before the file is opened, or fails
\* after the file was truncated.
save(mems, d, io) ==
    IF io = "ok" THEN Payload(mems)
    ELSE IF io = "open_fails" THEN d
    ELSE TruncatedFile

Call(op, facts, src, ret, raised, saves, top_k, result) ==
    [op |-> op, facts |-> facts, source_user_message |-> src, ret |-> ret,
     raised |-> raised, saves |-> saves, top_k |-> top_k, result |-> result,
     pre_memories |-> memories, pre_disk |-> disk]

\* a MemoryStore object exists: its constructor has returned
StoreUp == last.op # "none" /\ ~(last.op = "open" /\ last.raised # "none")

\* MemoryStore.__init__ on the current file: the process starts
Open(ios) ==
    /\ calls < MaxCalls
    /\ \E io \in ios, r \in {load(disk)} :
         /\ (~r.save) => (io = "ok")
         /\ memories' = r.memories
         /\ disk' = IF r.save THEN save(r.memories, disk, io) ELSE disk
         /\ last' = Call("open", <<>>, 0, 0,
                         IF r.save /\ io # "ok" THEN "OSError" ELSE r.raised,
                         IF r.save THEN 1 ELSE 0, 0, <<>>)
    /\ calls' = calls + 1
    /\ UNCHANGED <<clock, ui>>

\* a faulty add_facts: when the save fails the collection is put back as
\* it was before the call
AddFacts_rollback(pool, ios) ==
    /\ StoreUp
    /\ calls < MaxCalls
    /\ \E facts \in BoundedSeq(pool, MaxBatch), io \in ios :
       \E ticks \in [DOMAIN facts -> {0, 1}] :
       \E r \in {add_facts(memories, facts, calls + 1, clock, ticks)} :
         /\ (r.added = 0) => (io = "ok")
         /\ memories' = IF io = "ok" THEN r.memories ELSE memories
         /\ clock' = r.clock
         /\ disk' = IF r.added > 0 THEN save(r.memories, disk, io) ELSE disk
         /\ last' = Call("add_facts", facts, calls + 1,
                         IF io = "ok" THEN r.added ELSE 0,
                         IF io = "ok" THEN "none" ELSE "OSError",
                         IF r.added > 0 THEN 1 ELSE 0, 0, <<>>)
    /\ calls' = calls + 1
    /\ UNCHANGED ui

\* a faulty add_facts: the file is written whatever the count
AddFacts_always(pool, ios) ==
    /\ StoreUp
    /\ calls < MaxCalls
    /\ \E facts \in BoundedSeq(pool, MaxBatch), io \in ios :
       \E ticks \in [DOMAIN facts -> {0, 1}] :
       \E r \in {add_facts(memories, facts, calls + 1, clock, ticks)} :
         /\ memories' = r.memories
         /\ clock' = r.clock
         /\ disk' = save(r.memories, disk, io)
         /\ last' = Call("add_facts", facts, calls + 1,
                         IF io = "ok" THEN r.added ELSE 0,
                         IF io = "ok" THEN "none" ELSE "OSError",
                         1, 0, <<>>)
    /\ calls' = calls + 1
    /\ UNCHANGED ui

\* MemoryStore.add_facts with candidates drawn from pool; the source
\* message is identified by the number of the turn
AddFacts(pool, ios) ==
    /\ StoreUp
    /\ calls < MaxCalls
    /\ \E facts \in BoundedSeq(pool, MaxBatch), io \in ios :
       \E ticks \in [DOMAIN facts -> {0, 1}] :
       \E r \in {add_facts(memories, facts, calls + 1, clock, ticks)} :
         /\ (r.added = 0) => (io = "ok")
         /\ memories' = r.memories
         /\ clock' = r.clock
         /\ disk' = IF r.added > 0 THEN save(r.memories, disk, io) ELSE disk
         /\ last' = Call("add_facts", facts, calls + 1,
                         IF io = "ok" THEN r.added ELSE 0,
                         IF io = "ok" THEN "none" ELSE "OSError",
                         IF r.added > 0 THEN 1 ELSE 0, 0, <<>>)
    /\ calls' = calls + 1
    /\ UNCHANGED ui

\* a faulty clear: the collection is emptied and the file is not written
Clear_unsaved(ios) ==
    /\ StoreUp
    /\ calls < MaxCalls
    /\ \E io \in ios :
         /\ memories' = <<>>
         /\ disk' = disk
         /\ last' = Call("clear", <<>>, 0, 0,
                         IF io = "ok" THEN "none" ELSE "OSError", 1, 0, <<>>)
    /\ calls' = calls + 1
    /\ UNCHANGED <<clock, ui>>

\* MemoryStore.clear
Clear(ios) ==
    /\ StoreUp
    /\ calls < MaxCalls
    /\ \E io \in ios :
         /\ memories' = <<>>
         /\ disk' = save(<<>>, disk, io)
         /\ last' = Call("clear", <<>>, 0, 0,
                         IF io = "ok" THEN "none" ELSE "OSError", 1, 0, <<>>)
    /\ calls' = calls + 1
    /\ UNCHANGED <<clock, ui>>

\* MemoryStore.search; the record of the call also keeps the query and the
\* minimum score
\* MemoryStore.list_facts
list_facts(mems) == [i \in DOMAIN mems |-> mems[i].fact]

\* a call of list_facts
ListFacts ==
    /\ StoreUp
    /\ calls < MaxCalls
    /\ last' = Call("list_facts", <<>>, 0, 0, "none", 0, 0,
                    list_facts(memories))
    /\ calls' = calls + 1
    /\ UNCHANGED <<memories, disk, clock, ui>>

\* a faulty search: the collection itself is put in ranking order and cut
Search_in_place ==
    /\ StoreUp
    /\ calls < MaxCalls
    /\ \E query \in QueryPool, top_k \in TopKPool, min_score \in MinScorePool :
       \E result \in {search(memories, query, top_k, min_score)} :
         /\ last' = Call("search", <<>>, 0, 0, "none", 0, top_k, result)
                    @@ [query |-> query, min_score |-> min_score]
         /\ memories' = result
    /\ calls' = calls + 1
    /\ UNCHANGED <<disk, clock, ui>>

Search ==
    /\ StoreUp
    /\ calls < MaxCalls
    /\ \E query \in QueryPool, top_k \in TopKPool, min_score \in MinScorePool :
         last' = Call("search", <<>>, 0, 0, "none", 0, top_k,
                      search(memories, query, top_k, min_score))
                 @@ [query |-> query, min_score |-> min_score]
    /\ calls' = calls + 1
    /\ UNCHANGED <<memories, disk, clock, ui>>

\* the store used directly: no front end is running
NoFrontEnd == [kind |-> "none"]

NoCall ==
    [op |-> "open", facts |-> <<>>, source_user_message |-> 0, ret |-> 0,
     raised |-> "none", saves |-> 0, top_k |-> 0, result |-> <<>>,
     pre_memories |-> <<>>, pre_disk |-> AbsentFile]

\* the store constructed where no file exists
Init ==
    /\ memories = <<>>
    /\ disk = AbsentFile
    /\ clock = 0
    /\ calls = 0
    /\ last = NoCall
    /\ ui = NoFrontEnd

Next ==
    \/ AddFacts(FactPool, {"ok"})
    \/ Clear({"ok"})
    \/ Search
    \/ Open({"ok"})

Spec == Init /\ [][Next]_vars

\* the preference scenarios: corrections and restarts from the empty store
NextPref ==
    \/ AddFacts(PrefFactPool, {"ok"})
    \/ Open({"ok"})

SpecPref == Init /\ [][NextPref]_vars

\* records of the repair scenarios: a fragment the filter drops, and a
\* preference whose rewritten text is a fragment
F_likes_to_run ==
    <<"U","s","e","r"," ","l","i","k","e","s"," ","t","o"," ","r","u","n">>

F_likes_watch_spaced ==
    <<"U","s","e","r"," ","l","i","k","e","s"," "," ","w","a","t","c","h">>

\* the items of the substitution example, and an item one deletion away
\* from the first only
F_likes_cats == <<"U","s","e","r"," ","l","i","k","e","s"," ","c","a","t","s">>

F_likes_cars == <<"U","s","e","r"," ","l","i","k","e","s"," ","c","a","r","s">>

F_dislikes_cat ==
    <<"U","s","e","r"," ","d","i","s","l","i","k","e","s"," ","c","a","t">>

\* candidates of the label scenarios: pizz, pizza and Pizzas! (pizza
\* near-matches both other ones) and an unrelated item
LabelFactPool == { F_likes_pizz, F_likes_pizza, F_dislikes_pizzas, F_likes_tea }

NextLabel ==
    \/ AddFacts(LabelFactPool, {"ok"})
    \/ Open({"ok"})

SpecLabel == Init /\ [][NextLabel]_vars

\* candidates of the substitution scenarios
SubstFactPool == { F_likes_cats, F_likes_cars, F_dislikes_cat }

NextSubst ==
    \/ AddFacts(SubstFactPool, {"ok"})
    \/ Open({"ok"})

SpecSubst == Init /\ [][NextSubst]_vars

-----------------------------------------------------------------------------
(* Stores found on disk when the process starts                            *)

\* records of a store file
MaxStore == 3

\* created_at values of the records of a store file, and the wall clock
\* when the process starts
StoreTimes == {1, 2}

StartClock == MaxOf(StoreTimes)

RecordsOf(facts) == {Item(f, ts, 0) : f \in facts, ts \in StoreTimes}

\* well-formed stores of slot records, written by any earlier version
SlotStores ==
    {[kind |-> "list", items |-> s] :
        s \in BoundedSeq(RecordsOf({F_name_al, F_name_ok, F_studies_law}),
                        MaxStore)}

\* well-formed stores of preference records
PrefStores ==
    {[kind |-> "list", items |-> s] :
        s \in BoundedSeq(RecordsOf({F_likes_tea, F_likes_teas, F_dislikes_seas}),
                        MaxStore)}

GoodItem == Item(F_likes_tea, 1, 0)

\* elements that are no record with the three string fields: a JSON
\* scalar, a record lacking a key, a record with a fourth key, a record
\* whose fact is a number
BadItems ==
    { [GoodItem EXCEPT !.shape = "scalar", !.keys = {}],
      [GoodItem EXCEPT !.keys = {"fact", "created_at"}],
      [GoodItem EXCEPT !.keys = KeyNames \cup {"id"}],
      [GoodItem EXCEPT !.fact_is_str = FALSE, !.fact = <<>>] }

\* file contents that are no well-formed list of records: undecodable
\* bytes, text that is no JSON, a JSON scalar, a JSON object (iterated by
\* its keys), lists with a bad element
CorruptStores ==
    { [kind |-> "bytes", items |-> <<>>],
      [kind |-> "text", items |-> <<>>],
      [kind |-> "scalar", items |-> <<>>],
      [kind |-> "object",
       items |-> <<[GoodItem EXCEPT !.shape = "scalar", !.keys = {}]>>] }
    \cup {[kind |-> "list", items |-> <<b>>] : b \in BadItems}
    \cup {[kind |-> "list", items |-> <<GoodItem, b>>] : b \in BadItems}
    \cup {[kind |-> "list", items |-> <<b, c>>] : b \in BadItems, c \in BadItems}

NotStarted ==
    [op |-> "none", facts |-> <<>>, source_user_message |-> 0, ret |-> 0,
     raised |-> "none", saves |-> 0, top_k |-> 0, result |-> <<>>,
     pre_memories |-> <<>>, pre_disk |-> AbsentFile]

\* before the process starts, with any of the stores on disk
InitOn(stores) ==
    /\ memories = <<>>
    /\ disk \in stores
    /\ clock = StartClock
    /\ calls = 0
    /\ last = NotStarted
    /\ ui = NoFrontEnd

InitSlot == InitOn(SlotStores \cup {AbsentFile})

NextSlot ==
    \/ Open({"ok"})
    \/ AddFacts(SlotFactPool, {"ok"})

SpecSlot == InitSlot /\ [][NextSlot]_vars

InitLoad == InitOn(PrefStores \cup CorruptStores \cup {AbsentFile})

NextLoad ==
    \/ Open({"ok"})
    \/ AddFacts(LoadFactPool, {"ok"})

SpecLoad == InitLoad /\ [][NextLoad]_vars

\* the fates of a write of the backing file
IOs == {"ok", "open_fails", "write_fails"}

\* candidates of the I/O scenarios
IOFactPool == { F_likes_tea, F_has_cat, F_name_al }

\* the I/O scenarios: from the empty store, every write may fail
NextIO ==
    \/ AddFacts(IOFactPool, IOs)
    \/ Clear(IOs)
    \/ Open(IOs)

SpecIO == Init /\ [][NextIO]_vars

\* stores of the ranking scenarios: the two preferences of the ranking
\* example and a free-text memory, in any order and with any timestamps
RankStores ==
    {[kind |-> "list", items |-> s] :
        s \in BoundedSeq(RecordsOf({F_likes_pizza, F_likes_hiking, F_has_cat}),
                        MaxStore)}

InitRank == InitOn(RankStores)

NextRank ==
    \/ Open({"ok"})
    \/ Search

SpecRank == InitRank /\ [][NextRank]_vars

\* stores of the mixed scenarios: a name, an occupation, a preference and
\* a free-text memory in any order
MixStores ==
    {[kind |-> "list", items |-> s] :
        s \in BoundedSeq({Item(f, 1, 0) : f \in {F_name_al, F_studies_law,
                                                 F_likes_tea, F_has_cat}},
                        MaxStore)}

\* candidates of the mixed scenarios: two slot facts, a preference fact and
\* a free text
MixFactPool == { F_name_bo, F_works_vet, F_dislikes_tea, F_has_cat_variant }

InitMix == InitOn(MixStores)

NextMix ==
    \/ Open({"ok"})
    \/ AddFacts(MixFactPool, {"ok"})

SpecMix == InitMix /\ [][NextMix]_vars

\* stores of the repair scenarios: two names, a denylisted name, two
\* fragments and a preference, in any order and with any timestamps
RepairStores ==
    {[kind |-> "list", items |-> s] :
        s \in BoundedSeq(RecordsOf({F_name_al, F_name_bo, F_name_ok,
                                    F_likes_to_run, F_likes_watch_spaced,
                                    F_likes_tea}), MaxStore)}

InitRepair == InitOn(RepairStores)

NextRepair ==
    \/ Open({"ok"})
    \/ Clear({"ok"})

SpecRepair == InitRepair /\ [][NextRepair]_vars

-----------------------------------------------------------------------------
(* The web UI: one ChatEngine, one thread per HTTP request                 *)

MaxThreads == 2

Threads == 1..MaxThreads

C_new == <<"/","n","e","w">>

C_clear == <<"/","c","l","e","a","r">>

C_mem == <<"/","m","e","m">>

C_quit == <<"/","q","u","i","t">>

\* the dictionary command_aliases: its keys, then its values
AliasKeys ==
    { <<"n","e","w">>, <<"m","e","m">>, <<"c","l","e","a","r">>,
      <<"q","u","i","t">>, <<"e","x","i","t">> }

command_aliases(key) ==
    IF key = <<"n","e","w">> THEN C_new
    ELSE IF key = <<"m","e","m">> THEN C_mem
    ELSE IF key = <<"c","l","e","a","r">> THEN C_clear
    ELSE C_quit

\* the message after strip and after the alias substitution
user_message_of(message) ==
    IF Lower(Strip(message)) \in AliasKeys
    THEN command_aliases(Lower(Strip(message)))
    ELSE Strip(message)

\* messages posted to /api/chat
M_new == C_new

M_new_alias == <<" ","N","e","w"," ">>

M_new_upper == <<"/","N","E","W">>

M_clear_alias == <<"c","l","e","a","r">>

M_cat == <<"I"," ","h","a","v","e"," ","a"," ","c","a","t">>

WebMessagePool == {M_new, M_new_alias, M_new_upper, M_clear_alias, C_mem,
                   M_cat, <<" ">>}

\* what extract_facts may return for a message
WebFactPool == {F_has_cat, F_likes_tea}

\* the requests the handler serves: POST /api/chat with a message,
\* POST /api/new, POST /api/clear, GET /api/mem
WebRequests ==
    {[route |-> "chat", message |-> m] : m \in WebMessagePool}
    \cup {[route |-> r, message |-> <<>>] : r \in {"new", "clear", "mem"}}

\* where a request goes before it asks for the lock: do_GET, do_POST and
\* the part of handle_message ahead of the lock
entry_of(req) ==
    IF req.route = "new" THEN "new_wait"
    ELSE IF req.route = "clear" THEN "clear_wait"
    ELSE IF req.route = "mem" THEN "mem_wait"
    ELSE IF Strip(req.message) = <<>> THEN "done"
    ELSE IF user_message_of(req.message) = C_new THEN "new_wait"
    ELSE IF user_message_of(req.message) = C_clear THEN "clear_wait"
    ELSE IF user_message_of(req.message) = C_mem THEN "mem_wait"
    ELSE IF user_message_of(req.message) = C_quit THEN "done"
    ELSE "chat_wait"

\* the statement a thread is at once it holds the lock
locked_of(pc) ==
    IF pc = "new_wait" THEN "new"
    ELSE IF pc = "clear_wait" THEN "clear"
    ELSE IF pc = "mem_wait" THEN "mem"
    ELSE "search"

WebUp == ui.kind = "web"

At(t, pc) == WebUp /\ ui.pc[t] = pc

\* ChatEngine: the lock is free (holder 0), no request has arrived, the
\* history is empty
WebStart ==
    [kind |-> "web", lock |-> 0, history |-> <<>>,
     pc |-> [t \in Threads |-> "idle"],
     request |-> [t \in Threads |-> [route |-> "none", message |-> <<>>]],
     user_message |-> [t \in Threads |-> <<>>],
     seen |-> [t \in Threads |-> <<>>],
     turn |-> [t \in Threads |-> 0],
     extracted |-> [t \in Threads |-> <<>>]]

\* a request arrives on a thread of its own and runs up to the lock
Request(t) ==
    /\ At(t, "idle")
    /\ \E req \in WebRequests :
         ui' = [ui EXCEPT !.pc[t] = entry_of(req), !.request[t] = req,
                          !.user_message[t] = user_message_of(req.message)]
    /\ UNCHANGED <<memories, disk, clock, calls, last>>

\* a faulty lock: a thread enters while another one holds it
Acquire_any(t) ==
    /\ WebUp
    /\ ui.pc[t] \in {"new_wait", "clear_wait", "mem_wait", "chat_wait"}
    /\ ui' = [ui EXCEPT !.lock = t, !.pc[t] = locked_of(ui.pc[t])]
    /\ UNCHANGED <<memories, disk, clock, calls, last>>

\* with self.lock: the thread enters when the lock is free
Acquire(t) ==
    /\ WebUp
    /\ ui.pc[t] \in {"new_wait", "clear_wait", "mem_wait", "chat_wait"}
    /\ ui.lock = 0
    /\ ui' = [ui EXCEPT !.lock = t, !.pc[t] = locked_of(ui.pc[t])]
    /\ UNCHANGED <<memories, disk, clock, calls, last>>

\* the end of the with block
Release(t) ==
    /\ At(t, "release")
    /\ ui' = [ui EXCEPT !.lock = 0, !.pc[t] = "done"]
    /\ UNCHANGED <<memories, disk, clock, calls, last>>

\* ChatEngine.new_session under the lock
NewSession(t) ==
    /\ At(t, "new")
    /\ ui' = [ui EXCEPT !.history = <<>>, !.pc[t] = "release"]
    /\ UNCHANGED <<memories, disk, clock, calls, last>>

\* ChatEngine.clear_memories under the lock
ClearMemories(t) ==
    /\ At(t, "clear")
    /\ memories' = <<>>
    /\ disk' = save(<<>>, disk, "ok")
    /\ last' = Call("clear", <<>>, 0, 0, "none", 1, 0, <<>>)
    /\ calls' = calls + 1
    /\ ui' = [ui EXCEPT !.history = <<>>, !.pc[t] = "release"]
    /\ UNCHANGED clock

\* ChatEngine.list_memories under the lock
ListMemories(t) ==
    /\ At(t, "mem")
    /\ ui' = [ui EXCEPT !.seen[t] = memories, !.pc[t] = "release"]
    /\ UNCHANGED <<memories, disk, clock, calls, last>>

\* ChatEngine._context_facts: the search and the reading of the collection
ContextFacts(t) ==
    /\ At(t, "search")
    /\ last' = Call("search", <<>>, 0, 0, "none", 0, WebTopK,
                    search(memories, ui.user_message[t], WebTopK,
                           [p |-> 0, q |-> 1]))
               @@ [query |-> ui.user_message[t], min_score |-> [p |-> 0, q |-> 1]]
    /\ calls' = calls + 1
    /\ ui' = [ui EXCEPT !.seen[t] = memories, !.turn[t] = calls + 1,
                        !.pc[t] = "reply"]
    /\ UNCHANGED <<memories, disk, clock>>

\* the two history entries of the turn, generate_reply and extract_facts;
\* the model answers with any candidates
Reply(t) ==
    /\ At(t, "reply")
    /\ \E extracted \in BoundedSeq(WebFactPool, 1) :
         ui' = [ui EXCEPT !.history = Append(Append(@, "user"), "assistant"),
                          !.extracted[t] = extracted,
                          !.pc[t] = "add_facts"]
    /\ UNCHANGED <<memories, disk, clock, calls, last>>

\* the add_facts of the turn; the message is identified by its thread
ChatAddFacts(t) ==
    /\ At(t, "add_facts")
    /\ \E ticks \in [DOMAIN ui.extracted[t] -> {0, 1}] :
       \E r \in {add_facts(memories, ui.extracted[t], t, clock, ticks)} :
         /\ memories' = r.memories
         /\ clock' = r.clock
         /\ disk' = IF r.added > 0 THEN save(r.memories, disk, "ok") ELSE disk
         /\ last' = Call("add_facts", ui.extracted[t], t, r.added, "none",
                         IF r.added > 0 THEN 1 ELSE 0, 0, <<>>)
    /\ calls' = calls + 1
    /\ ui' = [ui EXCEPT !.pc[t] = "release"]

\* the ways a write of the file fails
FailedWrites == {"open_fails", "write_fails"}

\* the add_facts of the turn when the write of the file fails: the
\* collection is changed, OSError leaves _save, add_facts and handle_message
ChatSaveFails(t) ==
    /\ At(t, "add_facts")
    /\ \E ticks \in [DOMAIN ui.extracted[t] -> {0, 1}], io \in FailedWrites :
       \E r \in {add_facts(memories, ui.extracted[t], t, clock, ticks)} :
         /\ r.added > 0
         /\ memories' = r.memories
         /\ clock' = r.clock
         /\ disk' = save(r.memories, disk, io)
         /\ last' = Call("add_facts", ui.extracted[t], t, 0, "OSError",
                         1, 0, <<>>)
    /\ calls' = calls + 1
    /\ ui' = [ui EXCEPT !.pc[t] = "raise"]

\* clear_memories when the write of the file fails: the collection is
\* emptied, the history is not reset
ClearSaveFails(t) ==
    /\ At(t, "clear")
    /\ \E io \in FailedWrites :
         /\ memories' = <<>>
         /\ disk' = save(<<>>, disk, io)
         /\ last' = Call("clear", <<>>, 0, 0, "OSError", 1, 0, <<>>)
    /\ calls' = calls + 1
    /\ ui' = [ui EXCEPT !.pc[t] = "raise"]
    /\ UNCHANGED clock

\* a faulty exit: the exception leaves the block and the lock stays held
Unwind_holding(t) ==
    /\ At(t, "raise")
    /\ ui' = [ui EXCEPT !.pc[t] = "failed"]
    /\ UNCHANGED <<memories, disk, clock, calls, last>>

\* the exception leaves the with block: the lock is released and the
\* request ends without a reply
Unwind(t) ==
    /\ At(t, "raise")
    /\ ui' = [ui EXCEPT !.lock = 0, !.pc[t] = "failed"]
    /\ UNCHANGED <<memories, disk, clock, calls, last>>

\* stores the server may find when it starts
WebStores == {AbsentFile, Payload(<<Memory(F_has_cat, 1, 0)>>)}

\* ENGINE = ChatEngine(): the store is constructed once, before any
\* request is served
InitWeb ==
    /\ disk \in WebStores
    /\ memories = load(disk).memories
    /\ clock = StartClock
    /\ calls = 0
    /\ last = NoCall
    /\ ui = WebStart

NextWeb ==
    \E t \in Threads :
        \/ Request(t)
        \/ Acquire(t)
        \/ NewSession(t)
        \/ ClearMemories(t)
        \/ ListMemories(t)
        \/ ContextFacts(t)
        \/ Reply(t)
        \/ ChatAddFacts(t)
        \/ Release(t)

SpecWeb == InitWeb /\ [][NextWeb]_vars

\* what the thread of a request does once the request has arrived
Serve(t) ==
    \/ Acquire(t)
    \/ NewSession(t)
    \/ ClearMemories(t)
    \/ ClearSaveFails(t)
    \/ ListMemories(t)
    \/ ContextFacts(t)
    \/ Reply(t)
    \/ ChatAddFacts(t)
    \/ ChatSaveFails(t)
    \/ Release(t)
    \/ Unwind(t)

NextLock ==
    \E t \in Threads :
        \/ Request(t)
        \/ Serve(t)

\* a thread that finds the lock free takes it in the end, and a thread at
\* the end of a with block, reached normally or by an exception, leaves
\* it; whether the calls made under the lock return is not assumed here
SpecLock ==
    /\ InitWeb
    /\ [][NextLock]_vars
    /\ \A t \in Threads :
         /\ WF_vars(Acquire(t))
         /\ WF_vars(Release(t))
         /\ WF_vars(Unwind(t))

-----------------------------------------------------------------------------
(* The command line: the loop of main, one input line at a time            *)

MaxLines == 3

M_exit == <<"E","x","i","t">>

\* lines typed at the prompt
CliMessagePool == WebMessagePool \cup {M_exit}

\* the branch of the loop a line takes
branch_of(line) ==
    IF Strip(line) = <<>> THEN "blank"
    ELSE IF user_message_of(line) = C_quit THEN "quit"
    ELSE IF user_message_of(line) = C_new THEN "new"
    ELSE IF user_message_of(line) = C_mem THEN "mem"
    ELSE IF user_message_of(line) = C_clear THEN "clear"
    ELSE "chat"

\* main before its first prompt: no line read, the history empty
CliStart ==
    [kind |-> "cli", history |-> <<>>, lines |-> 0, line |-> <<>>,
     exited |-> FALSE]

\* the prompt is shown
CliUp == ui.kind = "cli" /\ ~ui.exited /\ ui.lines < MaxLines

\* the line is read; history is the conversation history the branch leaves
Read(line, history, exited) ==
    [ui EXCEPT !.lines = @ + 1, !.line = line, !.history = history,
               !.exited = exited]

\* an empty line
CliBlank ==
    /\ CliUp
    /\ \E line \in CliMessagePool :
         /\ branch_of(line) = "blank"
         /\ ui' = Read(line, ui.history, FALSE)
    /\ UNCHANGED <<memories, disk, clock, calls, last>>

\* /quit, quit, exit
CliQuit ==
    /\ CliUp
    /\ \E line \in CliMessagePool :
         /\ branch_of(line) = "quit"
         /\ ui' = Read(line, ui.history, TRUE)
    /\ UNCHANGED <<memories, disk, clock, calls, last>>

\* a faulty /new: the collection is emptied with the history
CliNew_forgetting ==
    /\ CliUp
    /\ \E line \in CliMessagePool :
         /\ branch_of(line) = "new"
         /\ ui' = Read(line, <<>>, FALSE)
    /\ memories' = <<>>
    /\ UNCHANGED <<disk, clock, calls, last>>

\* /new, new
CliNew ==
    /\ CliUp
    /\ \E line \in CliMessagePool :
         /\ branch_of(line) = "new"
         /\ ui' = Read(line, <<>>, FALSE)
    /\ UNCHANGED <<memories, disk, clock, calls, last>>

\* /mem, mem
CliMem ==
    /\ CliUp
    /\ \E line \in CliMessagePool :
         /\ branch_of(line) = "mem"
         /\ ui' = Read(line, ui.history, FALSE)
    /\ UNCHANGED <<memories, disk, clock, calls, last>>

\* /clear, clear
CliClear ==
    /\ CliUp
    /\ \E line \in CliMessagePool :
         /\ branch_of(line) = "clear"
         /\ ui' = Read(line, <<>>, FALSE)
    /\ memories' = <<>>
    /\ disk' = save(<<>>, disk, "ok")
    /\ last' = Call("clear", <<>>, 0, 0, "none", 1, 0, <<>>)
    /\ calls' = calls + 1
    /\ UNCHANGED clock

\* any other line: search, the two history entries, generate_reply,
\* extract_facts with any candidates, add_facts; the message is identified
\* by the number of its line
CliChat ==
    /\ CliUp
    /\ \E line \in CliMessagePool, extracted \in BoundedSeq(WebFactPool, 1) :
       \E ticks \in [DOMAIN extracted -> {0, 1}] :
       \E r \in {add_facts(memories, extracted, ui.lines + 1, clock, ticks)} :
         /\ branch_of(line) = "chat"
         /\ ui' = Read(line, Append(Append(ui.history, "user"), "assistant"),
                       FALSE)
         /\ memories' = r.memories
         /\ clock' = r.clock
         /\ disk' = IF r.added > 0 THEN save(r.memories, disk, "ok") ELSE disk
         /\ last' = Call("add_facts", extracted, ui.lines + 1, r.added, "none",
                         IF r.added > 0 THEN 1 ELSE 0, 0, <<>>)
    /\ calls' = calls + 2

NextCli ==
    \/ CliBlank
    \/ CliQuit
    \/ CliNew
    \/ CliMem
    \/ CliClear
    \/ CliChat

\* either front end, started on one of the stores
InitFront ==
    /\ disk \in WebStores
    /\ memories = load(disk).memories
    /\ clock = StartClock
    /\ calls = 0
    /\ last = NoCall
    /\ ui \in {WebStart, CliStart}

NextFront ==
    \/ NextCli
    \/ NextWeb

SpecFront == InitFront /\ [][NextFront]_vars

-----------------------------------------------------------------------------
(* Two processes, each with a MemoryStore object on the same file          *)

MaxAdds == 3

Procs == {1, 2}

\* candidates of the two-process scenarios: none of them replaces another
ProcFactPool == { F_has_cat, F_name_al, F_likes_tea }

\* no object is constructed yet; collection[p] is the attribute memories
\* of the object of process p, offered[p] the candidates it was called
\* with, loaded[p] the facts its constructor read, saved the facts each
\* process accepted and wrote, writer the process that wrote the file last
ProcsStart ==
    [kind |-> "processes", adds |-> 0, writer |-> 0,
     up |-> [p \in Procs |-> FALSE],
     collection |-> [p \in Procs |-> <<>>],
     loaded |-> [p \in Procs |-> {}],
     offered |-> [p \in Procs |-> {}],
     saved |-> [p \in Procs |-> {}]]

ProcsUp == ui.kind = "processes"

\* the facts of a collection
FactSet(mems) == {mems[i].fact : i \in DOMAIN mems}

\* process p constructs its object: MemoryStore.__init__ on the file
ProcOpen(p) ==
    /\ ProcsUp
    /\ ~ui.up[p]
    /\ \E r \in {load(disk)} :
         /\ r.raised = "none"
         /\ memories' = r.memories
         /\ disk' = IF r.save THEN save(r.memories, disk, "ok") ELSE disk
         /\ last' = Call("open", <<>>, 0, 0, "none",
                         IF r.save THEN 1 ELSE 0, 0, <<>>)
         /\ ui' = [ui EXCEPT !.up[p] = TRUE, !.collection[p] = r.memories,
                             !.loaded[p] = FactSet(r.memories),
                             !.writer = IF r.save THEN p ELSE @]
    /\ calls' = calls + 1
    /\ UNCHANGED clock

\* a coordinated add_facts: the object reads the file again before it adds
ProcAddFacts_reloading(p) ==
    /\ ProcsUp
    /\ ui.up[p]
    /\ ui.adds < MaxAdds
    /\ \E facts \in BoundedSeq(ProcFactPool, 1) :
       \E ticks \in [DOMAIN facts -> {0, 1}] :
       \E r \in {add_facts(load(disk).memories, facts, calls + 1, clock, ticks)} :
         /\ memories' = r.memories
         /\ clock' = r.clock
         /\ disk' = IF r.added > 0 THEN save(r.memories, disk, "ok") ELSE disk
         /\ last' = Call("add_facts", facts, calls + 1, r.added, "none",
                         IF r.added > 0 THEN 1 ELSE 0, 0, <<>>)
         /\ ui' = [ui EXCEPT !.adds = @ + 1, !.collection[p] = r.memories,
                             !.offered[p] = @ \cup {facts[i] : i \in DOMAIN facts},
                             !.saved[p] =
                                 IF r.added > 0
                                 THEN @ \cup (FactSet(r.memories)
                                                \ FactSet(ui.collection[p]))
                                 ELSE @,
                             !.writer = IF r.added > 0 THEN p ELSE @]
    /\ calls' = calls + 1

\* process p calls add_facts on its object
ProcAddFacts(p) ==
    /\ ProcsUp
    /\ ui.up[p]
    /\ ui.adds < MaxAdds
    /\ \E facts \in BoundedSeq(ProcFactPool, 1) :
       \E ticks \in [DOMAIN facts -> {0, 1}] :
       \E r \in {add_facts(ui.collection[p], facts, calls + 1, clock, ticks)} :
         /\ memories' = r.memories
         /\ clock' = r.clock
         /\ disk' = IF r.added > 0 THEN save(r.memories, disk, "ok") ELSE disk
         /\ last' = Call("add_facts", facts, calls + 1, r.added, "none",
                         IF r.added > 0 THEN 1 ELSE 0, 0, <<>>)
         /\ ui' = [ui EXCEPT !.adds = @ + 1, !.collection[p] = r.memories,
                             !.offered[p] = @ \cup {facts[i] : i \in DOMAIN facts},
                             !.saved[p] =
                                 IF r.added > 0
                                 THEN @ \cup (FactSet(r.memories)
                                                \ FactSet(ui.collection[p]))
                                 ELSE @,
                             !.writer = IF r.added > 0 THEN p ELSE @]
    /\ calls' = calls + 1

\* no file, no object
InitProcs ==
    /\ memories = <<>>
    /\ disk = AbsentFile
    /\ clock = 0
    /\ calls = 0
    /\ last = NotStarted
    /\ ui = ProcsStart

NextProcs ==
    \E p \in Procs :
        \/ ProcOpen(p)
        \/ ProcAddFacts(p)

SpecProcs == InitProcs /\ [][NextProcs]_vars

-----------------------------------------------------------------------------
(* _is_near_pref_match applied to two items                                *)

MaxWord == 5

I_piz == <<"p", "i", "z">>
I_pizz == <<"p", "i", "z", "z">>

\* the items the function is applied to
NearItems == BoundedSeq({"a", "b"}, MaxWord) \cup {I_piz, I_pizz}

NearUp == ui.kind = "near"

\* two items are chosen, the function is not called yet
InitNear ==
    /\ memories = <<>>
    /\ disk = AbsentFile
    /\ clock = 0
    /\ calls = 0
    /\ last = NotStarted
    /\ ui \in [kind : {"near"}, a : NearItems, b : NearItems,
               called : {FALSE}, result : {FALSE}]

\* self._is_near_pref_match(a, b)
ApplyNear ==
    /\ NearUp
    /\ ~ui.called
    /\ ui' = [ui EXCEPT !.called = TRUE,
                        !.result = is_near_pref_match(ui.a, ui.b)]
    /\ UNCHANGED <<memories, disk, clock, calls, last>>

NextNear == ApplyNear

SpecNear == InitNear /\ [][NextNear]_vars

-----------------------------------------------------------------------------
(* add_facts with longer candidate lists                                   *)

\* stores of the batch scenarios
BatchStores ==
    {[kind |-> "list", items |-> s] :
        s \in BoundedSeq({Item(f, 1, 0) : f \in {F_has_cat, F_likes_tea,
                                                 F_name_al}},
                        MaxStore - 1)}

\* candidates of the batch scenarios: a free text in two spellings, a
\* preference in both polarities and a slot fact
BatchFactPool ==
    { F_has_cat, F_has_cat_variant, F_likes_tea, F_dislikes_tea, F_name_bo }

\* add_facts called once with up to MaxBatch + 1 candidates
BatchAddFacts ==
    /\ StoreUp
    /\ calls < MaxCalls
    /\ \E facts \in BoundedSeq(BatchFactPool, MaxBatch + 1) :
       \E ticks \in [DOMAIN facts -> {0, 1}] :
       \E r \in {add_facts(memories, facts, calls + 1, clock, ticks)} :
         /\ memories' = r.memories
         /\ clock' = r.clock
         /\ disk' = IF r.added > 0 THEN save(r.memories, disk, "ok") ELSE disk
         /\ last' = Call("add_facts", facts, calls + 1, r.added, "none",
                         IF r.added > 0 THEN 1 ELSE 0, 0, <<>>)
    /\ calls' = calls + 1
    /\ UNCHANGED ui

InitBatch == InitOn(BatchStores)

NextBatch ==
    \/ Open({"ok"})
    \/ BatchAddFacts

SpecBatch == InitBatch /\ [][NextBatch]_vars

-----------------------------------------------------------------------------
(* Reading calls on a loaded store                                         *)

NextRead ==
    \/ Open({"ok"})
    \/ Search
    \/ ListFacts

SpecRead == InitRank /\ [][NextRead]_vars

-----------------------------------------------------------------------------
(* Properties: slots                                                       *)

\* the last call was an add_facts that returned
AddReturned == last.op = "add_facts" /\ last.raised = "none"

GroupNames ==
    {"name", "birthday", "location", "occupation", "best_friend", "dog_name"}

\* the memories of mems that hold the slot group
HoldersOf(mems, group) ==
    {i \in DOMAIN mems : single_value_group(mems[i].fact) = group}

\* the candidates of facts that are facts for the slot group
CandidatesOf(facts, group) ==
    {i \in DOMAIN facts : single_value_group(facts[i]) = group}

\* C1: while a store object exists, each of the six slots is held by at
\* most one memory; and after an add_facts call with a candidate for a
\* slot, the slot's memory is the last such candidate of the call
SlotExclusivity ==
    StoreUp =>
      /\ \A g \in GroupNames : Cardinality(HoldersOf(memories, g)) <= 1
      /\ AddReturned =>
           \A g \in GroupNames :
              CandidatesOf(last.facts, g) # {} =>
                 \E i \in HoldersOf(memories, g) :
                    memories[i].fact =
                       Strip(last.facts[MaxOf(CandidatesOf(last.facts, g))])

\* C1 happens: a call with two different candidates for a slot that a
\* memory of the loaded store already held
SlotReplacedTwice ==
    /\ AddReturned
    /\ \E g \in GroupNames :
         /\ HoldersOf(last.pre_memories, g) # {}
         /\ Cardinality(CandidatesOf(last.facts, g)) = 2
         /\ last.facts[1] # last.facts[2]

\* a name fact whose value is a token of INVALID_NAME_TOKENS
IsDenylistedName(fact) ==
    /\ single_value_group(fact) = "name"
    /\ name_value(fact) \in INVALID_NAME_TOKENS

\* C2: an add_facts call whose candidates are name facts with a denylisted
\* value returns 0 and leaves the collection as it was
DenylistedNameRejected ==
    ( /\ AddReturned
      /\ last.facts # <<>>
      /\ \A i \in DOMAIN last.facts : IsDenylistedName(last.facts[i]) )
    => (last.ret = 0 /\ memories = last.pre_memories)

-----------------------------------------------------------------------------
(* Properties: persistence                                                 *)

\* C3: when an add_facts or clear call that returned has changed the
\* collection, the file holds exactly the collection
PersistedAfterMutation ==
    ( /\ last.op \in {"add_facts", "clear"}
      /\ last.raised = "none"
      /\ memories # last.pre_memories )
    => disk = Payload(memories)

\* the stored preference memories with a normalised item
PrefsOf(mems) ==
    {i \in DOMAIN mems :
        PREF_PATTERN(Strip(mems[i].fact)).ok /\ pref_key_of(mems[i].fact) # <<>>}

\* C4: after a load and any add_facts calls, no two stored preference
\* memories have normalised items that near-match
PreferenceUniqueness ==
    StoreUp =>
      \A i, j \in PrefsOf(memories) :
         i # j => ~is_near_pref_match(pref_key_of(memories[i].fact),
                                      pref_key_of(memories[j].fact))

\* no two memories carry the same timestamp
DistinctTimes(mems) ==
    \A i, j \in DOMAIN mems : i # j => mems[i].created_at # mems[j].created_at

\* C5: a collection reached by add_facts and clear calls, saved and loaded
\* by a new store, comes back as the identical sequence; stated for the
\* collections whose timestamps are pairwise distinct, so that no tie of
\* the wall clock is involved
RoundTrip ==
    ( /\ last.op \in {"add_facts", "clear"}
      /\ last.raised = "none"
      /\ DistinctTimes(memories) )
    => /\ load(Payload(memories)).raised = "none"
       /\ load(Payload(memories)).memories = memories

\* C6: constructing the store on a file that is no well-formed list of
\* records raises nothing and ends with the empty collection
CorruptStoreRecovery ==
    (last.op = "open" /\ last.pre_disk \in CorruptStores)
    => (last.raised = "none" /\ memories = <<>>)

-----------------------------------------------------------------------------
(* Properties: consolidation                                               *)

\* a likes/dislikes fact with a normalised item
IsPrefFact(fact) ==
    PREF_PATTERN(Strip(fact)).ok /\ pref_key_of(fact) # <<>>

PolarityOf(fact) == PREF_PATTERN(Strip(fact)).polarity

\* the memories of mems whose item near-matches one of the keys
RelatedTo(mems, keys) ==
    {i \in DOMAIN mems : \E k \in keys : is_pref_match(mems[i].fact, k)}

\* the normalised items of the memories of mems at the indexes
KeysAt(mems, indexes) == {pref_key_of(mems[i].fact) : i \in indexes}

\* C7: after an add_facts call whose last candidate is a likes/dislikes
\* fact, exactly one stored preference near-matches its item, and that
\* memory has its polarity; when the call is that one fact and its item
\* matched stored preferences, one memory stands for all their items, the
\* unmatched memories are the ones before, nothing is counted and the
\* collection has not grown
PreferenceCorrection ==
    (AddReturned /\ last.facts # <<>> /\ IsPrefFact(last.facts[Len(last.facts)]))
    => LET new == last.facts[Len(last.facts)]
           key == pref_key_of(new)
           pre == last.pre_memories
           matched == matched_indexes(pre, key)
       IN  /\ Cardinality(matched_indexes(memories, key)) = 1
           /\ \A i \in matched_indexes(memories, key) :
                 PolarityOf(memories[i].fact) = PolarityOf(new)
           /\ (Len(last.facts) = 1 /\ matched # {}) =>
                /\ Cardinality(RelatedTo(memories,
                                         {key} \cup KeysAt(pre, matched))) = 1
                /\ Len(memories) = Len(pre) - Cardinality(matched) + 1
                /\ Len(memories) <= Len(pre)
                /\ \A i \in DOMAIN pre \ matched :
                      \E j \in DOMAIN memories : memories[j] = pre[i]
                /\ last.ret = 0

\* C7 happens: one fact whose item near-matches two stored preferences,
\* one of them of the other polarity
CorrectionMergedTwo ==
    /\ AddReturned
    /\ Len(last.facts) = 1
    /\ IsPrefFact(last.facts[1])
    /\ Cardinality(matched_indexes(last.pre_memories,
                                   pref_key_of(last.facts[1]))) = 2
    /\ \E i \in matched_indexes(last.pre_memories, pref_key_of(last.facts[1])) :
          PolarityOf(last.pre_memories[i].fact) # PolarityOf(last.facts[1])

\* the collection when the loop of the last add_facts call reaches its
\* i-th candidate
MemoriesBefore(i) ==
    add_facts(last.pre_memories, SubSeq(last.facts, 1, i - 1), 0, 0,
              [j \in 1..(i - 1) |-> 0]).memories

\* what a candidate adds to the count in the stated reading: a preference
\* fact counts when it matched no stored preference
CountAsStated(mems, fact) ==
    IF Strip(fact) = <<>> THEN 0
    ELSE IF PREF_PATTERN(Strip(fact)).ok
    THEN (IF IsPrefFact(fact) /\ matched_indexes(mems, pref_key_of(fact)) # {}
          THEN 0 ELSE 1)
    ELSE IF single_value_group(fact) # "" THEN 1
    ELSE IF Lower(Strip(fact)) \in existing_of(mems) THEN 0 ELSE 1

\* what a candidate adds to the count: a preference fact counts when it
\* has a normalised item and matched no stored preference
CountOf(mems, fact) ==
    IF Strip(fact) = <<>> THEN 0
    ELSE IF PREF_PATTERN(Strip(fact)).ok
    THEN (IF IsPrefFact(fact) /\ matched_indexes(mems, pref_key_of(fact)) = {}
          THEN 1 ELSE 0)
    ELSE IF single_value_group(fact) # "" THEN 1
    ELSE IF Lower(Strip(fact)) \in existing_of(mems) THEN 0 ELSE 1

\* C8 as stated: add_facts returns the number of candidates that were slot
\* facts, preference facts that matched no stored preference, or
\* unstructured facts not already present
AcceptedCountAsStated ==
    AddReturned =>
       last.ret = SumSeq([i \in DOMAIN last.facts |->
                             CountAsStated(MemoriesBefore(i), last.facts[i])])

\* C8: add_facts returns the number of candidates that were slot facts,
\* preference facts with a non-empty normalised item that matched no
\* stored preference, or unstructured facts not already present
AcceptedCount ==
    AddReturned =>
       last.ret = SumSeq([i \in DOMAIN last.facts |->
                             CountOf(MemoriesBefore(i), last.facts[i])])

\* C8 happens: a call of a preference fact whose item normalises to
\* nothing and of a candidate that is counted
CountedBesideEmptyItem ==
    /\ AddReturned
    /\ last.ret = 1
    /\ \E i, j \in DOMAIN last.facts :
          /\ PREF_PATTERN(Strip(last.facts[i])).ok
          /\ ~IsPrefFact(last.facts[i])
          /\ CountOf(MemoriesBefore(j), last.facts[j]) = 1

\* a candidate that is neither blank, nor a preference, nor a slot fact
IsPlain(fact) ==
    /\ Strip(fact) # <<>>
    /\ ~PREF_PATTERN(Strip(fact)).ok
    /\ single_value_group(fact) = ""

\* the memories of mems whose stripped, lowercased text is key
CopiesOf(mems, key) ==
    Cardinality({i \in DOMAIN mems : Lower(Strip(mems[i].fact)) = key})

\* C9: after add_facts, the text of every unstructured candidate is held
\* by as many memories as before the call, or by one when none held it;
\* and a call of unstructured candidates only appends one memory per text
\* that was not held, counts exactly those and leaves the rest as it was
UnstructuredDedup ==
    AddReturned =>
      /\ \A i \in DOMAIN last.facts :
            IsPlain(last.facts[i]) =>
               CopiesOf(memories, Lower(Strip(last.facts[i]))) =
                  IF CopiesOf(last.pre_memories, Lower(Strip(last.facts[i]))) > 0
                  THEN CopiesOf(last.pre_memories, Lower(Strip(last.facts[i])))
                  ELSE 1
      /\ (\A i \in DOMAIN last.facts : IsPlain(last.facts[i])) =>
            /\ last.ret =
                  Cardinality({Lower(Strip(last.facts[i])) : i \in DOMAIN last.facts}
                              \ existing_of(last.pre_memories))
            /\ Len(memories) = Len(last.pre_memories) + last.ret
            /\ SubSeq(memories, 1, Len(last.pre_memories)) = last.pre_memories

\* C9 happens: an unstructured candidate whose text is held by a memory
\* that is written in another case
DuplicateInOtherCase ==
    /\ AddReturned
    /\ last.ret = 0
    /\ \E i \in DOMAIN last.facts :
          /\ IsPlain(last.facts[i])
          /\ Lower(Strip(last.facts[i])) \in existing_of(last.pre_memories)
          /\ \A j \in DOMAIN last.pre_memories :
                last.pre_memories[j].fact # Strip(last.facts[i])

-----------------------------------------------------------------------------
(* Properties: retrieval                                                   *)

\* every element of the result is a memory of the collection
ResultStored == \A i \in DOMAIN last.result : \E j \in DOMAIN memories :
                   last.result[i] = memories[j]

\* C10 as stated: for every top_k, search returns stored memories, at most
\* top_k of them
SearchCapAnyTopK ==
    (last.op = "search") => (ResultStored /\ Len(last.result) <= last.top_k)

\* C10: for every top_k >= 0, search returns stored memories, at most
\* top_k of them
SearchCap ==
    (last.op = "search" /\ last.top_k >= 0)
    => (ResultStored /\ Len(last.result) <= last.top_k)

\* C10 happens: a search with top_k = 1 on a store where two memories
\* reach the minimum score
SearchCapReached ==
    /\ last.op = "search"
    /\ last.top_k = 1
    /\ Len(memories) >= 2
    /\ Len(search(memories, Q_tea_cat, 2, [p |-> 8, q |-> 100])) = 2
    /\ last.result = search(memories, Q_tea_cat, 1, [p |-> 8, q |-> 100])
    /\ Len(last.result) = 1


\* the score of a memory against the query of the last search
ScoreOf(m) == cosine_similarity(tokenize(last.query), tokenize(m.fact))

\* m1 ranks at least as high as m2: a greater score, or the same score and
\* a created_at that is not older
RanksNotAfter(m1, m2) ==
    \/ ScoreLess(ScoreOf(m2), ScoreOf(m1))
    \/ /\ ~ScoreLess(ScoreOf(m1), ScoreOf(m2))
       /\ m1.created_at >= m2.created_at

\* the stored memories that reach the minimum score of the last search
Qualifying ==
    {i \in DOMAIN memories : ScoreAtLeast(ScoreOf(memories[i]), last.min_score)}

\* the memory has a token of the query of the last search
SharesToken(m) ==
    \E i \in DOMAIN tokenize(m.fact), j \in DOMAIN tokenize(last.query) :
       tokenize(m.fact)[i] = tokenize(last.query)[j]

\* C11: for top_k >= 0, the result of search is made of min(top_k, n)
\* different ones of the n stored memories that reach min_score, ordered by
\* score descending and by created_at descending among equal scores, no
\* left-out memory ranking strictly before a returned one; and no memory
\* that shares no token with the query comes before one that shares one
SearchRanking ==
    (last.op = "search" /\ last.top_k >= 0) =>
      /\ Len(last.result) = Min(last.top_k, Cardinality(Qualifying))
      /\ \E pick \in [DOMAIN last.result -> Qualifying] :
            /\ \A i, j \in DOMAIN pick : i # j => pick[i] # pick[j]
            /\ \A i \in DOMAIN pick : last.result[i] = memories[pick[i]]
            /\ \A k \in Qualifying :
                  (\A i \in DOMAIN pick : pick[i] # k) =>
                     \A i \in DOMAIN pick :
                        RanksNotAfter(last.result[i], memories[k])
      /\ \A i, j \in DOMAIN last.result :
            i < j => /\ RanksNotAfter(last.result[i], last.result[j])
                     /\ SharesToken(last.result[j]) => SharesToken(last.result[i])

\* C11 happens: the ranking example, with top_k = 1 and the memory that
\* shares no token with the query being the newer one
PizzaRankedFirst ==
    /\ last.op = "search"
    /\ last.query = Q_pizza
    /\ last.top_k = 1
    /\ last.min_score = [p |-> 0, q |-> 1]
    /\ \E i, j \in DOMAIN memories :
          /\ memories[i].fact = F_likes_pizza
          /\ memories[j].fact = F_likes_hiking
          /\ memories[j].created_at > memories[i].created_at
          /\ last.result = <<memories[i]>>


-----------------------------------------------------------------------------
(* Properties: clear and failing writes                                    *)

\* C12: after clear has returned, the collection is empty, the file holds
\* the empty collection, and a store constructed on the file is empty
ClearEmpties ==
    (last.op = "clear" /\ last.raised = "none") =>
       /\ memories = <<>>
       /\ disk = Payload(<<>>)
       /\ load(disk).raised = "none"
       /\ load(disk).memories = <<>>

\* C12 happens: a clear that returned on a store that held memories
ClearedNonEmpty ==
    /\ last.op = "clear"
    /\ last.raised = "none"
    /\ last.pre_memories # <<>>
    /\ last.pre_disk # Payload(<<>>)

\* a later candidate of the last call replaces what candidate i leaves: a
\* fact for the same slot, or a preference that near-matches its item
Superseded(i) ==
    \E j \in DOMAIN last.facts :
       /\ j > i
       /\ \/ /\ single_value_group(last.facts[i]) # ""
             /\ single_value_group(last.facts[j]) = single_value_group(last.facts[i])
          \/ /\ IsPrefFact(last.facts[i])
             /\ IsPrefFact(last.facts[j])
             /\ is_near_pref_match(pref_key_of(last.facts[i]),
                                   pref_key_of(last.facts[j]))

\* the collection holds the fact of an accepted candidate, recorded with
\* the source message of the last call
Holds(fact) ==
    \E k \in DOMAIN memories :
       /\ memories[k].source_user_message = last.source_user_message
       /\ IF IsPrefFact(fact)
          THEN memories[k].fact = pref_fact(PolarityOf(fact), pref_item_of(fact))
          ELSE memories[k].fact = Strip(fact)

\* C13: an add_facts call whose write fails raises; the collection then
\* holds every fact the call accepted that no later candidate of the call
\* replaced, and holds all that it held before apart from what the call
\* replaced; and an add_facts call that saved and returned leaves the file
\* equal to the collection, whatever the file held before
SaveFailure ==
    (last.op = "add_facts") =>
       /\ (last.saves = 1 /\ disk # Payload(memories)) => last.raised = "OSError"
       /\ (last.raised = "OSError") =>
            /\ last.saves = 1
            /\ \A i \in DOMAIN last.facts :
                  (CountOf(MemoriesBefore(i), last.facts[i]) = 1 /\ ~Superseded(i))
                  => Holds(last.facts[i])
            /\ \A k \in DOMAIN last.pre_memories :
                  \/ \E n \in DOMAIN memories : memories[n] = last.pre_memories[k]
                  \/ \E i \in DOMAIN last.facts :
                        single_value_group(last.facts[i]) # "" /\
                        single_value_group(last.facts[i]) =
                           single_value_group(last.pre_memories[k].fact)
                  \/ \E i \in DOMAIN last.facts :
                        IsPrefFact(last.facts[i]) /\
                        is_pref_match(last.pre_memories[k].fact,
                                      pref_key_of(last.facts[i]))
       /\ (last.raised = "none" /\ last.saves = 1) => disk = Payload(memories)

\* C13 happens: an add_facts call that saved, on a collection that an
\* earlier failed write had left out of the file
SavedAfterFailure ==
    /\ last.op = "add_facts"
    /\ last.raised = "none"
    /\ last.saves = 1
    /\ last.pre_memories # <<>>
    /\ last.pre_disk.kind \in {"absent", "text"}


-----------------------------------------------------------------------------
(* Properties: the web UI                                                  *)

\* the thread is at a MemoryStore operation: search, add_facts, clear or
\* the reading of the collection
InStore(t) == ui.pc[t] \in {"search", "add_facts", "clear", "mem"}

\* the thread is between the search and the add_facts of its chat turn
MidTurn(t) == ui.pc[t] \in {"reply", "add_facts"}

\* C14: in the web UI no two request threads are at a MemoryStore operation
\* at the same time, and between the search and the add_facts of a chat
\* turn no other request's store call happens: the store has seen no call
\* since the turn's search and the collection is the one the search read
TurnAtomicity ==
    WebUp =>
        /\ \A t \in Threads, u \in Threads :
             (InStore(t) /\ InStore(u)) => (t = u)
        /\ \A t \in Threads :
             MidTurn(t) => (calls = ui.turn[t] /\ memories = ui.seen[t])

\* a chat turn is about to add a fact to a non-empty collection while a
\* clear request of another thread waits for the lock
TurnHeldAgainstClear ==
    /\ WebUp
    /\ \E t \in Threads, u \in Threads :
         /\ t # u
         /\ ui.pc[t] = "add_facts"
         /\ ui.extracted[t] # <<>>
         /\ memories # <<>>
         /\ ui.pc[u] = "clear_wait"


-----------------------------------------------------------------------------
(* Properties: routing of the candidates                                   *)

\* a candidate the slot branch of add_facts takes
IsSlotFact(fact) ==
    /\ Strip(fact) # <<>>
    /\ ~PREF_PATTERN(Strip(fact)).ok
    /\ single_value_group(fact) # ""

\* the memories of mems that are not of the slot group, in order
OutsideGroup(mems, group) ==
    SelectIdx(mems, {i \in DOMAIN mems :
                        single_value_group(mems[i].fact) # group}, 1)

\* the memories of mems that the scan for the item key does not match, in
\* order
Unmatched(mems, key) ==
    SelectIdx(mems, {i \in DOMAIN mems : ~is_pref_match(mems[i].fact, key)}, 1)

\* what one candidate may change between the collection before it and the
\* collection after it
FrameOf(before, after, fact) ==
    IF IsSlotFact(fact)
    THEN OutsideGroup(after, single_value_group(fact))
           = OutsideGroup(before, single_value_group(fact))
    ELSE IF IsPrefFact(fact)
    THEN Unmatched(after, pref_key_of(fact)) = Unmatched(before, pref_key_of(fact))
    ELSE IF PREF_PATTERN(Strip(fact)).ok
    THEN after = before
    ELSE TRUE

\* the memories of before the call that no candidate of it concerns: of
\* no candidate's slot and matched by no candidate's item
Bystanders(mems, facts) ==
    SelectIdx(mems,
        {i \in DOMAIN mems :
            \A j \in DOMAIN facts :
                /\ IsSlotFact(facts[j]) =>
                     single_value_group(mems[i].fact)
                        # single_value_group(facts[j])
                /\ IsPrefFact(facts[j]) =>
                     ~is_pref_match(mems[i].fact, pref_key_of(facts[j]))}, 1)

\* C15: in an add_facts call of any candidates, each slot
\* candidate leaves every memory that is not of its slot as it was and in
\* its place among the others, each preference candidate leaves every
\* memory its item does not match as it was, and the memories no candidate
\* concerns are in the collection after the call, unchanged and in order
NoCrossTalk ==
    AddReturned
    => /\ \A i \in DOMAIN last.facts :
            \A before \in {MemoriesBefore(i)}, after \in {MemoriesBefore(i + 1)} :
                FrameOf(before, after, last.facts[i])
       /\ \A after \in {MemoriesBefore(Len(last.facts) + 1)} :
            [i \in DOMAIN memories |-> memories[i].fact]
               = [i \in DOMAIN after |-> after[i].fact]
       /\ SelectIdx(memories,
                    {i \in DOMAIN memories :
                        \E k \in DOMAIN last.pre_memories :
                            memories[i] = last.pre_memories[k]}, 1)
            = Bystanders(last.pre_memories, last.facts)

\* one call with a slot candidate and a preference candidate replaced the
\* name and the preference of a collection that also held a free text,
\* which stayed
SlotAndPreferenceRouted ==
    /\ AddReturned
    /\ last.facts = <<F_name_bo, F_dislikes_tea>>
    /\ Len(last.pre_memories) = MaxStore
    /\ \E i \in DOMAIN last.pre_memories :
         /\ last.pre_memories[i].fact = F_has_cat
         /\ \E k \in DOMAIN memories : memories[k] = last.pre_memories[i]
    /\ \E i \in DOMAIN last.pre_memories : last.pre_memories[i].fact = F_name_al
    /\ \E i \in DOMAIN last.pre_memories : last.pre_memories[i].fact = F_likes_tea
    /\ \A k \in DOMAIN memories :
         memories[k].fact \notin {F_name_al, F_likes_tea}


-----------------------------------------------------------------------------
(* Properties: the commands of the front ends                              *)

\* a request of the web UI that asks for a new session: POST /api/new, or
\* a chat message that is /new or its alias
AsksNew(req) ==
    \/ req.route = "new"
    \/ req.route = "chat" /\ Strip(req.message) # <<>>
         /\ user_message_of(req.message) = C_new

\* the step that serves /new: the line /new or new read at the prompt, or
\* a thread of the web UI running new_session under the lock
NewStep ==
    \/ /\ ui.kind = "cli"
       /\ ui'.lines = ui.lines + 1
       /\ branch_of(ui'.line) = "new"
    \/ /\ ui.kind = "web"
       /\ \E t \in Threads : ui.pc[t] = "new" /\ ui'.pc[t] # "new"

\* C16: the step that serves /new or its alias new, at the prompt and in
\* the web UI, leaves the collection, the backing file and the record of
\* store calls as they were and empties the conversation history; and a
\* web request for a new session is never at a search, a reply and
\* extraction, an add_facts or a clear
NewResetsOnlyHistory ==
    /\ [][NewStep => /\ memories' = memories
                     /\ disk' = disk
                     /\ calls' = calls
                     /\ last' = last
                     /\ ui'.history = <<>>]_vars
    /\ [](WebUp => \A t \in Threads :
                      AsksNew(ui.request[t]) =>
                          ui.pc[t] \in {"new_wait", "new", "release", "done"})

\* the alias new was just served with facts stored and a conversation
\* under way: at the prompt after a chat line, or in the web UI by a thread
\* that has left new_session
NewServedMidConversation ==
    /\ memories # <<>>
    /\ \/ /\ ui.kind = "cli"
          /\ ui.line = M_new_alias
          /\ ui.lines > 1
          /\ ui.history = <<>>
          /\ last.op = "add_facts"
       \/ /\ ui.kind = "web"
          /\ \E t \in Threads :
               /\ ui.request[t] = [route |-> "chat", message |-> M_new_alias]
               /\ ui.pc[t] = "release"
               /\ ui.history = <<>>
               /\ last.op = "add_facts"


-----------------------------------------------------------------------------
(* Properties: the merged preference memory                                *)

FactsOf(mems) == [i \in DOMAIN mems |-> mems[i].fact]

\* the raw items of the memories of mems at the indexes
ItemsAt(mems, indexes) == {pref_item_of(mems[i].fact) : i \in indexes}

\* C17: when the last candidate of an add_facts call is a preference fact
\* whose item matches stored preferences, the memory that holds the item
\* afterwards reads "User <polarity> <label>", where the label is one of
\* the matched items or the new item, no shorter than any of them, and the
\* new item when no matched item is longer; pizz then pizza, and pizza then
\* pizz, both leave "User likes pizza"
CanonicalLabel ==
    (AddReturned /\ last.facts # <<>>)
    => /\ \A before \in {MemoriesBefore(Len(last.facts))} :
            LET new == last.facts[Len(last.facts)]
                item == pref_item_of(new)
                matched == matched_indexes(before, pref_key_of(new))
                items == ItemsAt(before, matched) \cup {item}
                held == matched_indexes(memories, pref_key_of(new))
            IN  (IsPrefFact(new) /\ matched # {})
                => /\ held # {}
                   /\ \A k \in held :
                        /\ memories[k].fact
                             = pref_fact(PolarityOf(new),
                                         pref_item_of(memories[k].fact))
                        /\ pref_item_of(memories[k].fact) \in items
                        /\ \A other \in items :
                             Len(pref_item_of(memories[k].fact)) >= Len(other)
                        /\ (\A other \in items : Len(item) >= Len(other))
                             => pref_item_of(memories[k].fact) = item
       /\ (FactsOf(last.pre_memories) = <<F_likes_pizz>>
             /\ last.facts = <<F_likes_pizza>>)
            => FactsOf(memories) = <<F_likes_pizza>>
       /\ (FactsOf(last.pre_memories) = <<F_likes_pizza>>
             /\ last.facts = <<F_likes_pizz>>)
            => FactsOf(memories) = <<F_likes_pizza>>

\* pizza arrived where pizz and Pizzas! were stored: the merged memory
\* took the longest stored item as its label
LabelTakenFromStored ==
    /\ AddReturned
    /\ last.facts = <<F_likes_pizza>>
    /\ Len(last.pre_memories) = 2
    /\ FactsOf(last.pre_memories)[1] = F_likes_pizz
    /\ Len(memories) = 1
    /\ pref_item_of(memories[1].fact) = <<"P","i","z","z","a","s","!">>


\* the collection when the loop of the last add_facts call reaches its
\* last candidate; the collection before the call when it is the only one
BeforeLast ==
    IF Len(last.facts) = 1 THEN last.pre_memories
    ELSE MemoriesBefore(Len(last.facts))

\* C18: when the last candidate of an add_facts call is a preference fact
\* whose item matches k >= 1 stored preferences, the collection is shorter
\* by k - 1, the memory at the index of the first matched one is the merged
\* memory (it holds the item, with the candidate's polarity, the time and
\* the message of the call), and the other memories are the unmatched
\* ones, with the same text and in the same order; when the call is that
\* one candidate they are the same memories, field by field
InPlaceReplacement ==
    (AddReturned /\ last.facts # <<>>)
    => \A before \in {BeforeLast} :
         LET new == last.facts[Len(last.facts)]
             matched == matched_indexes(before, pref_key_of(new))
             first == MinOf(matched)
             rest == SelectIdx(memories, DOMAIN memories \ {first}, 1)
             unmatched == SelectIdx(before, DOMAIN before \ matched, 1)
         IN  (IsPrefFact(new) /\ matched # {})
             => /\ Len(memories) = Len(before) - (Cardinality(matched) - 1)
                /\ is_pref_match(memories[first].fact, pref_key_of(new))
                /\ PolarityOf(memories[first].fact) = PolarityOf(new)
                /\ memories[first].created_at = clock
                /\ memories[first].source_user_message
                     = last.source_user_message
                /\ FactsOf(rest) = FactsOf(unmatched)
                /\ Len(last.facts) = 1 => rest = unmatched

\* pizza arrived where pizz, tea and Pizzas! were held in this order: the
\* merged memory is first and tea follows it
MergedAheadOfBystander ==
    /\ AddReturned
    /\ last.facts # <<>>
    /\ last.facts[Len(last.facts)] = F_likes_pizza
    /\ Len(BeforeLast) = 3
    /\ BeforeLast[1].fact = F_likes_pizz
    /\ BeforeLast[2].fact = F_likes_tea
    /\ Cardinality(matched_indexes(BeforeLast, pref_key_of(F_likes_pizza))) = 2
    /\ Len(memories) = 2
    /\ memories[2].fact = F_likes_tea


-----------------------------------------------------------------------------
(* Properties: when add_facts writes                                       *)

\* C19: an add_facts call that returned wrote the file once when it
\* returned a count above 0 and not at all when it returned 0; a call that
\* did not write left the file as it was, and the file a call wrote holds
\* the collection as the last candidate of the call left it
BatchedSave ==
    AddReturned
    => /\ last.saves = (IF last.ret > 0 THEN 1 ELSE 0)
       /\ last.saves = 0 => disk = last.pre_disk
       /\ last.saves = 1 =>
            /\ disk = Payload(memories)
            /\ \A after \in {MemoriesBefore(Len(last.facts) + 1)} :
                 FactsOf(memories) = FactsOf(after)

\* a call of two candidates wrote once: the first was appended and
\* counted, the second merged into a stored preference and counted
\* nothing, and the file holds both effects
WroteOnceAfterBoth ==
    /\ AddReturned
    /\ Len(last.facts) = 2
    /\ last.facts[1] = F_has_cat
    /\ last.facts[2] = F_dislikes_tea
    /\ FactsOf(last.pre_memories) = <<F_likes_tea>>
    /\ last.ret = 1
    /\ last.saves = 1
    /\ FactsOf(memories) = <<F_dislikes_tea, F_has_cat>>
    /\ disk = Payload(memories)


-----------------------------------------------------------------------------
(* Properties: the save that follows a repairing load                      *)

\* the constructor has just read a store it could parse: a list of
\* well-formed records
LoadedStore ==
    /\ last.op = "open"
    /\ last.raised = "none"
    /\ last.pre_disk.kind = "list"
    /\ ~is_malformed(last.pre_disk)
    /\ ~has_nonstr_fact(last.pre_disk)

\* C20: when the collection a successful load produced is not the list of
\* records it read (a memory dropped, merged, relabelled, stripped of the
\* legacy marker or moved), the load has written it back: the file equals
\* the collection
ResaveAfterRepair ==
    (LoadedStore /\ Payload(memories) # last.pre_disk)
    => (last.saves = 1 /\ disk = Payload(memories))


-----------------------------------------------------------------------------
(* Properties: the load-time repair                                        *)

\* C21: the repair of a loaded store is idempotent: the collection a
\* successful load produced, saved and loaded again, is the same
\* collection in the same order
RepairIdempotent ==
    LoadedStore => load(Payload(memories)).memories = memories


\* the records of the loaded store that are memories of the slot group
\* with a value that is not denylisted
SlotRecords(d, group) ==
    {i \in DOMAIN d.items :
        /\ single_value_group(loaded_of(d)[i].fact) = group
        /\ ~is_invalid_memory(loaded_of(d)[i].fact)
        /\ (group = "name") =>
              name_value(loaded_of(d)[i].fact) \notin INVALID_NAME_TOKENS}

\* C22: after a successful load of a store with several non-denylisted
\* records of one slot, the slot's memory is the one of them that comes
\* last in the store, whatever the created_at values
LastRecordKept ==
    LoadedStore
    => \A g \in GroupNames :
         \A recs \in {SlotRecords(last.pre_disk, g)} :
           Cardinality(recs) > 1
           => \A i \in HoldersOf(memories, g) :
                memories[i] = loaded_of(last.pre_disk)[MaxOf(recs)]


\* C23: after a successful load of a parseable store the memories are in
\* non-decreasing created_at order
LoadOrdered ==
    LoadedStore
    => \A i \in DOMAIN memories, j \in DOMAIN memories :
         (i < j) => (memories[i].created_at <= memories[j].created_at)

\* a store whose records were in decreasing created_at order was loaded
\* and both records were kept
LoadedOutOfOrderStore ==
    /\ LoadedStore
    /\ Len(last.pre_disk.items) = 2
    /\ last.pre_disk.items[1].created_at > last.pre_disk.items[2].created_at
    /\ Len(memories) = 2
    /\ memories[1] = loaded_of(last.pre_disk)[2]
    /\ memories[2] = loaded_of(last.pre_disk)[1]


\* C24: after a successful load no memory is a degenerate fragment and no
\* name memory has a denylisted value; and a name record with a valid
\* value that is followed in the store only by denylisted name records is
\* held after the load
LoadDropsFragments ==
    LoadedStore
    => /\ \A i \in DOMAIN memories :
            /\ ~is_invalid_memory(memories[i].fact)
            /\ (single_value_group(memories[i].fact) = "name")
                 => name_value(memories[i].fact) \notin INVALID_NAME_TOKENS
       /\ \A recs \in {SlotRecords(last.pre_disk, "name")} :
            (recs # {} /\ Cardinality({loaded_of(last.pre_disk)[i].fact : i \in recs}) = 1)
            => \E k \in DOMAIN memories :
                 memories[k].fact = loaded_of(last.pre_disk)[MaxOf(recs)].fact


-----------------------------------------------------------------------------
(* Properties: the near-match of two items                                 *)

\* a and b have the same length and differ at exactly one position
OneSubstitution(a, b) ==
    /\ Len(a) = Len(b)
    /\ Cardinality({i \in DOMAIN a : a[i] # b[i]}) = 1

\* C25: when the last candidate of an add_facts call is a preference fact
\* and a stored preference has an item of the same length that differs
\* from the candidate's in exactly one character, the two are
\* near-duplicates: the stored one is among the matched memories and one
\* preference memory, with the candidate's polarity, holds the item
\* afterwards; "User likes cars" added where only "User likes cats" is
\* stored leaves the single memory "User likes cars"
OneSubstitutionMerge ==
    (AddReturned /\ last.facts # <<>>)
    => /\ \A before \in {BeforeLast} :
            LET new == last.facts[Len(last.facts)]
                key == pref_key_of(new)
            IN  IsPrefFact(new)
                => \A i \in DOMAIN before :
                     (IsPrefFact(before[i].fact)
                        /\ OneSubstitution(pref_key_of(before[i].fact), key))
                     => /\ is_near_pref_match(key, pref_key_of(before[i].fact))
                        /\ i \in matched_indexes(before, key)
                        /\ Cardinality(matched_indexes(memories, key)) = 1
                        /\ \A k \in matched_indexes(memories, key) :
                             PolarityOf(memories[k].fact) = PolarityOf(new)
       /\ (FactsOf(last.pre_memories) = <<F_likes_cats>>
             /\ last.facts = <<F_likes_cars>>)
            => (FactsOf(memories) = <<F_likes_cars>> /\ last.ret = 0)

\* "User likes cars" was added where "User likes cats" was the only memory
CarsReplacedCats ==
    /\ AddReturned
    /\ FactsOf(last.pre_memories) = <<F_likes_cats>>
    /\ last.facts = <<F_likes_cars>>
    /\ FactsOf(memories) = <<F_likes_cars>>


-----------------------------------------------------------------------------
(* Properties: two processes on one file                                   *)

\* the facts of the records of a store file
FileFacts(d) == {d.items[i].fact : i \in DOMAIN d.items}

\* C26: with two objects on one file, an object holds only what its
\* constructor read and what it was called with, and the file holds the
\* facts of the object that wrote last; so a fact another object
\* accepted and wrote in between is not in the file
LostUpdate ==
    ProcsUp
    => /\ \A p \in Procs :
            FactSet(ui.collection[p]) \subseteq (ui.loaded[p] \cup ui.offered[p])
       /\ (ui.writer # 0)
          => (FileFacts(disk) = FactSet(ui.collection[ui.writer]))
       /\ \A p \in Procs, q \in Procs :
            (ui.writer = p /\ q # p)
            => \A fact \in ui.saved[q] \ FactSet(ui.collection[p]) :
                 fact \notin FileFacts(disk)

\* a fact one process accepted and wrote is missing from the file after the
\* other process accepted and wrote another one
UpdateWasLost ==
    /\ ProcsUp
    /\ \E p \in Procs, q \in Procs :
         /\ p # q
         /\ ui.writer = p
         /\ ui.saved[p] # {}
         /\ \E fact \in ui.saved[q] :
              /\ fact \notin FileFacts(disk)
              /\ fact \in FactSet(ui.collection[q])


-----------------------------------------------------------------------------
(* Properties: near match and edit distance                                *)

\* the Levenshtein distance of a and b
RECURSIVE Levenshtein(_, _)
Levenshtein(a, b) ==
    IF a = <<>> THEN Len(b)
    ELSE IF b = <<>> THEN Len(a)
    ELSE IF Head(a) = Head(b) THEN Levenshtein(Tail(a), Tail(b))
    ELSE 1 + Min(Levenshtein(Tail(a), Tail(b)),
                 Min(Levenshtein(Tail(a), b), Levenshtein(a, Tail(b))))

\* C27: _is_near_pref_match(a, b) is true exactly when the Levenshtein
\* distance of a and b is at most 1; it gives the same for (b, a); and the
\* result is the same when the substring rule has no minimum length and
\* when there is no substring rule at all
NearIsOneEdit ==
    (NearUp /\ ui.called)
    => /\ ui.result = (Levenshtein(ui.a, ui.b) <= 1)
       /\ ui.result = is_near_pref_match(ui.b, ui.a)
       /\ ui.result =
            (\/ ui.a = ui.b
             \/ /\ Abs(Len(ui.a) - Len(ui.b)) <= 1
                /\ \/ Contains(ui.b, ui.a)
                   \/ Contains(ui.a, ui.b)
                   \/ NearScan(ui.a, ui.b, 0, 0, 0))
       /\ ui.result =
            (\/ ui.a = ui.b
             \/ /\ Abs(Len(ui.a) - Len(ui.b)) <= 1
                /\ NearScan(ui.a, ui.b, 0, 0, 0))

\* piz and pizz, shorter than the minimum length of the substring rule, match
PizMatchesPizz ==
    /\ NearUp
    /\ ui.called
    /\ ui.a = I_piz
    /\ ui.b = I_pizz
    /\ ui.result


-----------------------------------------------------------------------------
(* Properties: one call or two                                             *)

\* the ticks of a call during which the wall clock does not move
NoTicks(facts) == [i \in DOMAIN facts |-> 0]

\* C28: a call of add_facts with the list A + B leaves the same sequence
\* of facts and returns the same count as a call with A followed by a call
\* with B, for every way of cutting the list in two
BatchEquivalence ==
    (last.op = "add_facts" /\ last.raised = "none")
    => \A k \in 0..Len(last.facts) :
       \A A \in {SubSeq(last.facts, 1, k)},
          B \in {SubSeq(last.facts, k + 1, Len(last.facts))} :
       \A first \in {add_facts(last.pre_memories, A, 1, 0, NoTicks(A))} :
       \A second \in {add_facts(first.memories, B, 2, first.clock,
                                NoTicks(B))} :
         /\ FactsOf(second.memories) = FactsOf(memories)
         /\ first.added + second.added = last.ret

\* one call with three candidates that stored one, merged one and
\* skipped one on a collection that was not empty
BatchOfThreeAdded ==
    /\ last.op = "add_facts"
    /\ Len(last.facts) = 3
    /\ last.pre_memories # <<>>
    /\ last.ret = 1
    /\ \E i \in DOMAIN last.facts : PREF_PATTERN(Strip(last.facts[i])).ok
    /\ \E i \in DOMAIN last.facts, j \in DOMAIN last.facts :
         i < j /\ Lower(Strip(last.facts[i])) = Lower(Strip(last.facts[j]))


-----------------------------------------------------------------------------
(* Properties: reading calls                                               *)

\* C29: after a call of search or list_facts the collection, in content
\* and order, and the file are what they were before the call; list_facts
\* returns the facts in the order of the collection
ReadOnlyCalls ==
    (last.op \in {"search", "list_facts"})
    => /\ memories = last.pre_memories
       /\ disk = last.pre_disk
       /\ (last.op = "list_facts")
          => (last.result = [i \in DOMAIN memories |-> memories[i].fact])

\* a search returned two memories in another order than the collection
\* holds them
SearchReordered ==
    /\ last.op = "search"
    /\ Len(last.result) >= 2
    /\ Len(memories) >= 2
    /\ last.result # SubSeq(memories, 1, Len(last.result))
    /\ \E i \in DOMAIN memories, j \in DOMAIN memories :
         i < j /\ last.result[1] = memories[j] /\ last.result[2] = memories[i]


-----------------------------------------------------------------------------
(* Properties: progress at the lock                                        *)

WaitingForLock(t) ==
    WebUp /\ ui.pc[t] \in {"new_wait", "clear_wait", "mem_wait", "chat_wait"}

\* thread t is in a call made under the lock: the store's search, add_facts
\* or clear, the model's reply, or the statements around them
InCall(t) ==
    WebUp
    /\ ui.pc[t] \in {"new", "clear", "mem", "search", "reply", "add_facts"}

\* the request of thread t has ended, with a reply or with an exception
Ended(t) == WebUp /\ ui.pc[t] \in {"done", "failed"}

\* C30: a thread that holds the lock is not waiting for it, a thread whose
\* request has not started or has ended (with a reply or with the exception
\* of a failed save) does not hold it, and, the calls made under the lock
\* returning, a request that waits for the lock gets it and ends
LockProgress ==
    /\ [](WebUp
          => \A t \in Threads :
               /\ (ui.lock = t) => ~WaitingForLock(t)
               /\ (ui.pc[t] \in {"idle", "done", "failed"}) => (ui.lock # t))
    /\ (\A u \in Threads : []<>(~InCall(u)))
       => (\A t \in Threads : WaitingForLock(t) ~> Ended(t))

\* a save failed under the lock on one thread and the other thread, which
\* was waiting, now holds the lock
LockTakenAfterFailedSave ==
    /\ WebUp
    /\ \E t \in Threads, u \in Threads :
         /\ ui.pc[t] = "failed"
         /\ ui.lock = u
         /\ u # t
         /\ ui.pc[u] \in {"new", "clear", "mem", "search", "reply", "add_facts"}
         /\ last.raised = "OSError"

=============================================================================
